---- MODULE Spec2Model ----
(***************************************************************************)
(* A model of the filesystem layer of the engine (src/rust/engine/fs):     *)
(* the glob parser PathGlob::parse / parse_globs, the expansion of         *)
(* PathGlobs against a VFS, the canonicalization of symlinks, the batch    *)
(* lookup PathStatGetter::path_stats of PosixFS, the calls stat, scandir   *)
(* and read_link of PosixFS, the constructors of StrictGlobMatching,       *)
(* Conjunction, PathGlobs and PosixFS, the client of the alternate backend *)
(* (fs/vcfs: VcfsInstance::expand_globs, do_expand_globs_call and          *)
(* FileWithContents::from_shm_descriptor), and                             *)
(* safe_create_dir_all_ioerror under concurrent callers.                   *)
(*                                                                         *)
(* Paths are sequences of path segments: <<>> is the empty PathBuf (the    *)
(* root a PosixFS is relative to), <<"a","b">> is a/b.  A filespec is the  *)
(* sequence of the texts between its separators: "a//b" is <<"a","","b">>, *)
(* "/a" is <<"","a">>, the empty string is <<"">>.                         *)
(***************************************************************************)
EXTENDS Integers, Sequences, FiniteSets, TLC

VARIABLES
    mode,           \* which entry point this behaviour exercises
    include,        \* PathGlob::create / PathGlobs::create: the filespecs
    canonical_dir,  \* parse_globs: argument canonical_dir
    symbolic_path,  \* parse_globs: argument symbolic_path
    parts,          \* parse_globs: argument parts (Pattern::as_str of each)
    parsed,         \* the Result returned by the entry point
    ppc,            \* position of the parser caller: "init", "parsed"
    fsys,           \* the name of the filesystem under the root
    link_table,     \* what canonicalize makes of each link of that filesystem
    request,        \* expand: the arguments of PathGlobs::create
    pending,        \* expand: the expand_single futures not yet completed
    result,         \* expand: the shared Vec the futures extend
    scanned,        \* expand: every directory a scandir was issued for
    listed,         \* expand: the directories the request's fragments listed
    outcome,        \* expand: what the expansion returned
    epc,            \* expand: "init", "expanding", "rejected", "failed", "done"
    matched,        \* expand: the include entries that have matched a path
    unmatched,      \* expand: the inputs reported as not matching
    paths,          \* path_stats: the argument paths
    slots,          \* path_stats: the future of each path
    completed,      \* path_stats: the futures, in the order they completed
    batch,          \* path_stats: what join_all returned
    spc,            \* path_stats: "init", "running", "failed", "done"
    vfs_op,         \* PosixFS: the call made: "none", "stat", "scandir", ...
    vfs_path,       \* PosixFS: the path the call is about
    vfs_ret,        \* PosixFS: the io::Result the call returned
    args,           \* constructors: the arguments of the constructor
    built,          \* constructors: the Result the constructor returned
    bpc,            \* constructors: "init" or the constructor that ran
    message_id_counter, \* VcfsInstance: the AtomicU32
    first_id,       \* VcfsInstance: the counter when the behaviour starts
    handed,         \* VcfsInstance: the message ids handed out, in order
    client_lock,    \* VcfsInstance: who holds the Mutex of vcfs_client
    callers,        \* VcfsInstance: each expand_globs call under way
    to_server,      \* the socket: requests written, not yet read by the peer
    to_client,      \* the socket: responses written, not yet read
    socket,         \* the socket: "up" or "down"
    bytes,          \* from_shm_descriptor: the mapped region
    fd,             \* from_shm_descriptor: the descriptor read from the peer
    file,           \* from_shm_descriptor: what the call came to
    shm_pc,         \* from_shm_descriptor: "init", "called"
    dirs,           \* the directories that exist
    workers         \* safe_create_dir_all_ioerror: each call under way

parseVars == <<mode, include, canonical_dir, symbolic_path, parts, parsed, ppc>>

expandVars ==
    <<fsys, link_table, request, pending, result, scanned, listed, outcome, epc,
      matched, unmatched>>

pathVars == <<paths, slots, completed, batch, spc>>

vfsVars == <<vfs_op, vfs_path, vfs_ret>>

buildVars == <<args, built, bpc>>

rpcVars ==
    <<message_id_counter, first_id, handed, client_lock, callers, to_server,
      to_client, socket>>

shmVars == <<bytes, fd, file, shm_pc>>

dirVars == <<dirs, workers>>

vars ==
    <<parseVars, expandVars, pathVars, vfsVars, buildVars, rpcVars, shmVars,
      dirVars>>

----------------------------------------------------------------------------
(* Bounds of the model.                                                    *)

\* longest filespec, in segments, given to PathGlob::parse
MaxSegs == 4
\* longest part sequence given directly to parse_globs
MaxParts == 3
\* most paths given to one path_stats
MaxPaths == 2
\* most filespecs given to one PathGlobs::create
MaxSpecs == 2
\* threads calling expand_globs on one VcfsInstance
MaxCallers == 2
\* longest mapped region, in bytes
MaxRegion == 2
\* threads or processes calling safe_create_dir_all_ioerror at once
MaxThreads == 2
\* longest path given to safe_create_dir_all_ioerror, in components
MaxDepth == 2

----------------------------------------------------------------------------
(* Lazy statics of lib.rs.                                                 *)

PARENT_DIR == ".."
DOUBLE_STAR == "**"
SINGLE_STAR_GLOB == "*"
DOUBLE_STAR_GLOB == "**"

\* The texts a filespec segment is drawn from: the empty segment of "a//b"
\* or of a leading "/", ".", "..", the wildcards, a literal name, and "["
\* which glob::Pattern::new rejects.
Segments == {"", ".", "..", "**", "*", "a", "["}

\* The patterns parse_globs is handed by its callers (parse, and the
\* expansion of a DirWildcard's remainder).
PartTexts == {"**", "..", "*", "a"}

SeqsUpTo(S, n) == UNION {[1..k -> S] : k \in 0..n}

Ok(v) == [ok |-> TRUE, val |-> v]
Err(msg, arg) == [ok |-> FALSE, err |-> msg, arg |-> arg]

ABSOLUTE == "Absolute paths not supported"
BAD_GLOB == "Could not parse as a glob"
OUTSIDE_ROOT == "Globs may not traverse outside the root"

----------------------------------------------------------------------------
(* std::path::Path::components on unix, as PathGlob::parse uses it.        *)

HasRoot(segs) == Len(segs) >= 2 /\ segs[1] = ""

Component(s) ==
    IF s = ".." THEN [kind |-> "ParentDir", str |-> ".."]
    ELSE [kind |-> "Normal", str |-> s]

RECURSIVE ComponentsFrom(_, _)
ComponentsFrom(segs, i) ==
    IF i > Len(segs) THEN <<>>
    ELSE IF segs[i] = "" \/ segs[i] = "." THEN ComponentsFrom(segs, i + 1)
    ELSE <<Component(segs[i])>> \o ComponentsFrom(segs, i + 1)

\* A leading separator is RootDir; a leading "." of a relative path is
\* CurDir; every other "." and every empty segment is dropped.
Components(segs) ==
    IF HasRoot(segs)
    THEN <<[kind |-> "RootDir", str |-> "/"]>> \o ComponentsFrom(segs, 2)
    ELSE IF segs[1] = "."
    THEN <<[kind |-> "CurDir", str |-> "."]>> \o ComponentsFrom(segs, 2)
    ELSE ComponentsFrom(segs, 1)

\* glob::Pattern::new: whether the text of one component compiles.
PatternNewOk(s) == s # "["

----------------------------------------------------------------------------
(* PathGlob and its constructors.                                          *)

wildcard(cdir, spath, w) ==
    [kind |-> "Wildcard", canonical_dir |-> cdir, symbolic_path |-> spath,
     wildcard |-> w]

dir_wildcard(cdir, spath, w, rem) ==
    [kind |-> "DirWildcard", canonical_dir |-> cdir, symbolic_path |-> spath,
     wildcard |-> w, remainder |-> rem]

\* PathBuf::pop: FALSE (and no change) on the empty path.
PopOkAlways(p) == TRUE
PopOk(p) == Len(p) > 0
PopKeepsLast(p) == p
Pop(p) == IF Len(p) > 0 THEN SubSeq(p, 1, Len(p) - 1) ELSE p

\* The arm of parse_globs for a trailing `**`: "a trailing double-star
\* matches everything below, files as well as directories".
TrailingDoubleStarDirsOnly(cdir, spath) ==
    << dir_wildcard(cdir, spath, SINGLE_STAR_GLOB, <<DOUBLE_STAR_GLOB>>) >>
TrailingDoubleStar(cdir, spath) ==
    << dir_wildcard(cdir, spath, SINGLE_STAR_GLOB, <<DOUBLE_STAR_GLOB>>),
       wildcard(cdir, spath, SINGLE_STAR_GLOB) >>

RECURSIVE parse_globs(_, _, _)
parse_globs(cdir, spath, ps) ==
    IF ps = <<>> THEN Ok(<<>>)
    ELSE IF ps[1] = DOUBLE_STAR THEN
        IF Len(ps) = 1
        THEN Ok(TrailingDoubleStar(cdir, spath))
        ELSE LET pathglob_with_doublestar ==
                     dir_wildcard(cdir, spath, SINGLE_STAR_GLOB, ps)
                 pathglob_no_doublestar ==
                     IF Len(ps) = 2
                     THEN wildcard(cdir, spath, ps[2])
                     ELSE dir_wildcard(cdir, spath, ps[2], SubSeq(ps, 3, Len(ps)))
             IN  Ok(<<pathglob_with_doublestar, pathglob_no_doublestar>>)
    ELSE IF ps[1] = PARENT_DIR THEN
        IF ~PopOk(cdir)
        THEN Err(OUTSIDE_ROOT, ps)
        ELSE parse_globs(Pop(cdir), Append(spath, PARENT_DIR), Tail(ps))
    ELSE IF Len(ps) = 1
    THEN Ok(<<wildcard(cdir, spath, ps[1])>>)
    ELSE Ok(<<dir_wildcard(cdir, spath, ps[1], Tail(ps))>>)

\* The arm of PathGlob::parse that rejects a component.
IsAbsoluteOnlyPrefix(c) == c.kind = "Prefix"
IsAbsolute(c) == c.kind = "Prefix" \/ c.kind = "RootDir"

\* "Ignore repeated doublestar instances."
SkipRepeatedNever(prev, cur_is_doublestar) == FALSE
SkipRepeated(prev, cur_is_doublestar) == prev /\ cur_is_doublestar

\* The loop of PathGlob::parse over the components: acc is `parts`, prev is
\* `prev_was_doublestar`.
RECURSIVE ParseLoop(_, _, _, _, _)
ParseLoop(comps, i, acc, prev, filespec) ==
    IF i > Len(comps) THEN Ok(acc)
    ELSE LET c == comps[i] IN
        IF IsAbsolute(c) THEN Err(ABSOLUTE, filespec)
        ELSE IF c.kind = "CurDir" THEN ParseLoop(comps, i + 1, acc, prev, filespec)
        ELSE LET cur_is_doublestar == (c.str = DOUBLE_STAR) IN
            IF SkipRepeated(prev, cur_is_doublestar)
            THEN ParseLoop(comps, i + 1, acc, prev, filespec)
            ELSE IF ~PatternNewOk(c.str) THEN Err(BAD_GLOB, filespec)
            ELSE ParseLoop(comps, i + 1, Append(acc, c.str), cur_is_doublestar,
                           filespec)

parse(cdir, spath, filespec) ==
    LET r == ParseLoop(Components(filespec), 1, <<>>, FALSE, filespec) IN
        IF r.ok THEN parse_globs(cdir, spath, r.val) ELSE r

\* PathGlob::spread_filespecs: one PathGlobIncludeEntry per filespec, or
\* the first error.
RECURSIVE spread_filespecs(_)
spread_filespecs(filespecs) ==
    IF filespecs = <<>> THEN Ok(<<>>)
    ELSE LET g == parse(<<>>, <<>>, Head(filespecs)) IN
        IF ~g.ok THEN g
        ELSE LET rest == spread_filespecs(Tail(filespecs)) IN
            IF ~rest.ok THEN rest
            ELSE Ok(<<[input |-> Head(filespecs), globs |-> g.val]>> \o rest.val)

RECURSIVE flatten_entries(_)
flatten_entries(entries) ==
    IF entries = <<>> THEN <<>>
    ELSE Head(entries).globs \o flatten_entries(Tail(entries))

\* PathGlob::create
create(filespecs) ==
    LET e == spread_filespecs(filespecs) IN
        IF e.ok THEN Ok(flatten_entries(e.val)) ELSE e

----------------------------------------------------------------------------
(* The filesystem under the root of a PosixFS: a function from the         *)
(* relative path of each entry to what the entry is.  A link holds the     *)
(* text of its target, segment by segment.                                 *)

\* mode: the permission bits of the entry (0o755 is 493, 0o777 is 511).
DirEntry == [kind |-> "dir", abs |-> FALSE, target |-> <<>>, mode |-> 493]
DirMode(m) == [kind |-> "dir", abs |-> FALSE, target |-> <<>>, mode |-> m]
FileMode(m) == [kind |-> "file", abs |-> FALSE, target |-> <<>>, mode |-> m]
LinkEntry(t) == [kind |-> "link", abs |-> FALSE, target |-> t, mode |-> 511]
AbsLinkEntry(t) == [kind |-> "link", abs |-> TRUE, target |-> t, mode |-> 511]
\* a device node, a socket, a fifo
OtherEntry == [kind |-> "other", abs |-> FALSE, target |-> <<>>, mode |-> 438]

\* A file as the tests make it: 0o700 (448) or 0o600 (384).
FileEntry(x) == FileMode(IF x THEN 448 ELSE 384)

TreeOf(pairs) ==
    [p \in {pairs[i][1] : i \in 1..Len(pairs)} |->
        pairs[CHOOSE i \in 1..Len(pairs) : pairs[i][1] = p][2] ]

\* The tree of the test path_stats_for_paths.
MarmosetPairs ==
    << <<<<"dir">>, DirEntry>>,
       <<<<"dir", "recursive_symlink">>, LinkEntry(<<"..", "symlink">>)>>,
       <<<<"dir_symlink">>, LinkEntry(<<"dir">>)>>,
       <<<<"executable_file">>, FileEntry(TRUE)>>,
       <<<<"regular_file">>, FileEntry(FALSE)>>,
       <<<<"symlink">>, LinkEntry(<<"executable_file">>)>>,
       <<<<"symlink_to_nothing">>, LinkEntry(<<"doesnotexist">>)>> >>

\* The tree of the test scandir, whose link has an absolute target, beside
\* the merged tree of the snapshot tests (subdir/roland1, subdir/roland2).
EnclosurePairs ==
    << <<<<"enclosure">>, DirEntry>>,
       <<<<"enclosure", "a_marmoset">>, FileEntry(FALSE)>>,
       <<<<"enclosure", "feed">>, FileEntry(TRUE)>>,
       <<<<"enclosure", "hammock">>, DirEntry>>,
       <<<<"enclosure", "hammock", "napping_marmoset">>, FileEntry(FALSE)>>,
       <<<<"enclosure", "remarkably_similar_marmoset">>,
         AbsLinkEntry(<<"", "tmp", "enclosure", "a_marmoset">>)>>,
       <<<<"subdir">>, DirEntry>>,
       <<<<"subdir", "roland1">>, FileEntry(FALSE)>>,
       <<<<"subdir", "roland2">>, FileEntry(FALSE)>> >>

\* Plain files and directories, three levels deep.
RolandPairs ==
    << <<<<"subdir">>, DirEntry>>,
       <<<<"subdir", "hammock">>, DirEntry>>,
       <<<<"subdir", "hammock", "napping_marmoset">>, FileEntry(FALSE)>>,
       <<<<"subdir", "roland1">>, FileEntry(FALSE)>>,
       <<<<"subdir", "roland2">>, FileEntry(FALSE)>>,
       <<<<"feed">>, FileEntry(TRUE)>> >>

\* The files of the tests is_executable_false, is_executable_true and
\* stat_*, with files of other modes (0o100 64, 0o010 8, 0o677 447, 0o777
\* 511, 0o611 393); an empty directory; a directory with a device node.
ZooPairs ==
    << <<<<"dev">>, DirEntry>>,
       <<<<"dev", "a_marmoset">>, FileMode(384)>>,
       <<<<"dev", "null">>, OtherEntry>>,
       <<<<"empty_enclosure">>, DirEntry>>,
       <<<<"executable_file">>, FileMode(64)>>,
       <<<<"marmosets">>, FileMode(393)>>,
       <<<<"photograph_marmosets">>, FileMode(448)>>,
       <<<<"regular_file">>, FileMode(8)>>,
       <<<<"roland1">>, FileMode(447)>>,
       <<<<"roland2">>, FileMode(511)>> >>

\* A directory that holds a symlink loop, beside an ordinary one.
LoopPairs ==
    << <<<<"hammock">>, DirEntry>>,
       <<<<"hammock", "ping">>, LinkEntry(<<"pong">>)>>,
       <<<<"hammock", "pong">>, LinkEntry(<<"ping">>)>>,
       <<<<"hammock", "feed">>, FileEntry(FALSE)>>,
       <<<<"subdir">>, DirEntry>>,
       <<<<"subdir", "roland1">>, FileEntry(FALSE)>> >>

\* The same, with a link from outside the directory into it.
LoopLinkedPairs ==
    LoopPairs \o << <<<<"subdir", "symlink">>, LinkEntry(<<"..", "hammock", "feed">>)>> >>

\* Chains of links: within the traversal bound, beyond it, and cyclic;
\* a link whose target leaves the root, and a file named "*".
ChainPairs ==
    << <<<<"a_marmoset">>, FileEntry(FALSE)>>,
       <<<<"chain1">>, LinkEntry(<<"a_marmoset">>)>>,
       <<<<"chain2">>, LinkEntry(<<"chain1">>)>>,
       <<<<"chain3">>, LinkEntry(<<"chain2">>)>>,
       <<<<"chain4">>, LinkEntry(<<"chain3">>)>>,
       <<<<"ping">>, LinkEntry(<<"pong">>)>>,
       <<<<"pong">>, LinkEntry(<<"ping">>)>>,
       <<<<"self">>, LinkEntry(<<"self">>)>>,
       <<<<"outside">>, LinkEntry(<<"..", "a_marmoset">>)>>,
       <<<<"*">>, FileEntry(FALSE)>>,
       <<<<"star">>, LinkEntry(<<"*">>)>> >>

\* What stat_path can fail on: a device node, a directory the owner may
\* not search (mode 0), a link with an absolute target, beside a file, a
\* dangling link and a link to the file.
VaultPairs ==
    << <<<<"a_marmoset">>, FileEntry(FALSE)>>,
       <<<<"abs">>, AbsLinkEntry(<<"", "tmp", "a_marmoset">>)>>,
       <<<<"dev">>, DirEntry>>,
       <<<<"dev", "null">>, OtherEntry>>,
       <<<<"link">>, LinkEntry(<<"a_marmoset">>)>>,
       <<<<"locked">>, DirMode(0)>>,
       <<<<"locked", "feed">>, FileEntry(FALSE)>>,
       <<<<"nowhere">>, LinkEntry(<<"doesnotexist">>)>> >>

\* tree: the entries; ignore: the ignore patterns the PosixFS was built with.
FS(name) ==
    CASE name = "marmosets" -> [tree |-> TreeOf(MarmosetPairs), ignore |-> {}]
      [] name = "enclosure" -> [tree |-> TreeOf(EnclosurePairs), ignore |-> {}]
      [] name = "roland" -> [tree |-> TreeOf(RolandPairs), ignore |-> {}]
      [] name = "loop" -> [tree |-> TreeOf(LoopPairs), ignore |-> {}]
      [] name = "loop_linked" -> [tree |-> TreeOf(LoopLinkedPairs), ignore |-> {}]
      [] name = "chain" -> [tree |-> TreeOf(ChainPairs), ignore |-> {}]
      [] name = "zoo" -> [tree |-> TreeOf(ZooPairs), ignore |-> {}]
      [] name = "vault" -> [tree |-> TreeOf(VaultPairs), ignore |-> {}]

\* The byte order of the names of the model (Component orders ParentDir
\* before every Normal component).
NameOrder ==
    << "..", "*", "a_marmoset", "abs", "chain1", "chain2", "chain3", "chain4",
       "dev", "dir", "dir_symlink", "doesnotexist", "empty_enclosure",
       "enclosure", "executable_file", "feed", "hammock", "link", "locked",
       "marmosets", "napping_marmoset", "no_marmosets_here", "nowhere",
       "null", "outside", "photograph_marmosets", "ping",
       "pong", "recursive_symlink", "regular_file",
       "remarkably_similar_marmoset",
       "roland1", "roland2", "self", "star", "subdir", "symlink",
       "symlink_to_nothing", "tmp" >>

Rank(n) == CHOOSE i \in 1..Len(NameOrder) : NameOrder[i] = n

\* Path::cmp: component by component, a proper prefix first.
RECURSIVE PathLessFrom(_, _, _)
PathLessFrom(p, q, i) ==
    IF i > Len(q) THEN FALSE
    ELSE IF i > Len(p) THEN TRUE
    ELSE IF p[i] = q[i] THEN PathLessFrom(p, q, i + 1)
    ELSE Rank(p[i]) < Rank(q[i])

PathLess(p, q) == PathLessFrom(p, q, 1)

Last(p) == p[Len(p)]
Parent(p) == SubSeq(p, 1, Len(p) - 1)

\* The elements of a sequence of sequences, in order (Iterator::flatten):
\* element j of sequence i is at the place that follows those before it.
Concat(seqs) ==
    LET places == UNION {{<<i, j>> : j \in 1..Len(seqs[i])} : i \in 1..Len(seqs)}
        Before(a, b) == a[1] < b[1] \/ (a[1] = b[1] /\ a[2] < b[2])
        place == [at \in 1..Cardinality(places) |->
                     CHOOSE c \in places :
                         Cardinality({b \in places : Before(b, c)}) = at - 1]
    IN  [at \in 1..Cardinality(places) |-> seqs[place[at][1]][place[at][2]]]

----------------------------------------------------------------------------
(* Stat, PathStat and the operations of PosixFS.                           *)

StatDir(p) == [kind |-> "Dir", path |-> p, is_executable |-> FALSE]
StatFile(p, x) == [kind |-> "File", path |-> p, is_executable |-> x]
StatLink(p) == [kind |-> "Link", path |-> p, is_executable |-> FALSE]

\* PathStat::dir and PathStat::file
PathStatOf(path, stat) == [kind |-> stat.kind, path |-> path, stat |-> stat]

IoOk(v) == [ok |-> TRUE, val |-> v]
IoErr(kind, msg) == [ok |-> FALSE, kind |-> kind, msg |-> msg]

\* Bit i of x.
Bit(x, i) == (x \div 2^i) % 2

\* u32 & u32, for the twelve bits of a mode: the number whose bits are
\* those set in both.
BitAnd(a, b) ==
    CHOOSE r \in 0..(IF a < b THEN a ELSE b) :
        \A i \in 0..11 : Bit(r, i) = Bit(a, i) * Bit(b, i)

\* 0o100
OWNER_EXECUTE == 64

\* permissions().mode() & 0o100 == 0o100
is_executable_by_anyone(permissions) == BitAnd(permissions, 73) # 0
is_executable(permissions) ==
    BitAnd(permissions, OWNER_EXECUTE) = OWNER_EXECUTE

\* PosixFS::stat_internal, on the type of the entry.
stat_internal_other_as_file(path_for_stat, entry) ==
    IF HasRoot(path_for_stat)
    THEN IoErr("InvalidInput", "path_for_stat must be relative path")
    ELSE IF entry.kind = "dir" THEN IoOk(StatDir(path_for_stat))
    ELSE IF entry.kind = "link" THEN IoOk(StatLink(path_for_stat))
    ELSE IoOk(StatFile(path_for_stat, is_executable(entry.mode)))
stat_internal(path_for_stat, entry) ==
    IF HasRoot(path_for_stat)
    THEN IoErr("InvalidInput", "path_for_stat must be relative path")
    ELSE IF entry.kind = "dir" THEN IoOk(StatDir(path_for_stat))
    ELSE IF entry.kind = "file"
    THEN IoOk(StatFile(path_for_stat, is_executable(entry.mode)))
    ELSE IF entry.kind = "link" THEN IoOk(StatLink(path_for_stat))
    ELSE IoErr("InvalidData", "Expected File, Dir or Link")

\* Vec::sort_by on paths, a stable sort: an element comes after those
\* with a lesser path, and after those with its path that were before it.
SortedPosition(v, k) ==
    1 + Cardinality({j \in 1..Len(v) : PathLess(v[j].path, v[k].path)})
      + Cardinality({j \in 1..(k - 1) : v[j].path = v[k].path})

sort_by_path(v) ==
    LET position == [k \in 1..Len(v) |-> SortedPosition(v, k)] IN
    [at \in 1..Len(v) |-> v[CHOOSE k \in 1..Len(v) : position[k] = at]]

\* Vec::dedup_by on paths: of equal neighbours the first stays.
dedup_by_path(v) ==
    LET kept == {k \in 1..Len(v) : k = 1 \/ v[k].path # v[k - 1].path} IN
    [at \in 1..Cardinality(kept) |->
        v[CHOOSE k \in kept : Cardinality({j \in kept : j < k}) = at - 1]]

Children(f, dir) ==
    {p \in DOMAIN f.tree : Len(p) = Len(dir) + 1 /\ Parent(p) = dir}

\* read_dir hands the entries out in no sorted order: here, last name first.
ReadDirOf(names) ==
    [at \in 1..Cardinality(names) |->
        CHOOSE p \in names :
            Cardinality({q \in names : PathLess(p, q)}) = at - 1]

\* The stat of every entry, collected into one Result: the first error,
\* or every Stat.
StatAll(f, entries) ==
    LET stats == [i \in 1..Len(entries) |->
                     stat_internal(entries[i], f.tree[entries[i]])]
        failed == {i \in 1..Len(entries) : ~stats[i].ok}
    IN  IF failed # {}
        THEN stats[CHOOSE i \in failed : \A j \in failed : i <= j]
        ELSE IoOk([i \in 1..Len(entries) |-> stats[i].val])

\* PosixFS::scandir_sync, for a directory given by its real path.
scandir_sync_unsorted(f, dir) ==
    IF dir # <<>> /\ dir \notin DOMAIN f.tree
    THEN IoErr("NotFound", "No such file or directory")
    ELSE IF dir # <<>> /\ f.tree[dir].kind # "dir"
    THEN IoErr("Other", "Not a directory")
    ELSE StatAll(f, ReadDirOf(Children(f, dir)))
scandir_sync(f, dir) ==
    IF dir # <<>> /\ dir \notin DOMAIN f.tree
    THEN IoErr("NotFound", "No such file or directory")
    ELSE IF dir # <<>> /\ f.tree[dir].kind # "dir"
    THEN IoErr("Other", "Not a directory")
    ELSE LET stats == StatAll(f, ReadDirOf(Children(f, dir))) IN
        IF ~stats.ok THEN stats ELSE IoOk(sort_by_path(stats.val))

\* PosixFS::stat_path: symlink_metadata of the path under the root, which
\* does not follow the path's last component.  (On the way to it the
\* system follows links; no path of the model has one before its end.)
\* The `?` hands on the error of the system: ENOTDIR below a file, EACCES
\* below a directory whose owner lacks the search bit, ENOENT.
stat_path(f, relative_path) ==
    IF relative_path = <<>> THEN stat_internal(relative_path, DirEntry)
    ELSE IF \E k \in 1..(Len(relative_path) - 1) :
               /\ SubSeq(relative_path, 1, k) \in DOMAIN f.tree
               /\ f.tree[SubSeq(relative_path, 1, k)].kind = "file"
    THEN IoErr("Other", "Not a directory")
    ELSE IF \E k \in 1..(Len(relative_path) - 1) :
               /\ SubSeq(relative_path, 1, k) \in DOMAIN f.tree
               /\ f.tree[SubSeq(relative_path, 1, k)].kind = "dir"
               /\ ~is_executable(f.tree[SubSeq(relative_path, 1, k)].mode)
    THEN IoErr("PermissionDenied", "Permission denied")
    ELSE IF relative_path \notin DOMAIN f.tree
    THEN IoErr("NotFound", "No such file or directory")
    ELSE stat_internal(relative_path, f.tree[relative_path])

\* The closure read_link applies to the target the system returned.
read_link_then_absolute_too(link, entry) ==
    IF link = <<>>
    THEN IoErr("InvalidData", "Symlink without a parent?")
    ELSE IoOk(Parent(link) \o entry.target)
read_link_then(link, entry) ==
    IF entry.abs
    THEN IoErr("InvalidData", "Absolute symlink")
    ELSE IF link = <<>>
    THEN IoErr("InvalidData", "Symlink without a parent?")
    ELSE IoOk(Parent(link) \o entry.target)

\* PosixFS::read_link: the parent of the link joined with its target.
\* The system's readlink comes first: the path with no parent is the root,
\* a directory (PosixFS::new), for which readlink is an invalid argument.
read_link_target_only(f, link) ==
    IF link \notin DOMAIN f.tree
    THEN IoErr("NotFound", "No such file or directory")
    ELSE IF f.tree[link].kind # "link"
    THEN IoErr("InvalidInput", "Invalid argument")
    ELSE IF f.tree[link].abs
    THEN IoErr("InvalidData", "Absolute symlink")
    ELSE IoOk(f.tree[link].target)
read_link(f, link) ==
    IF link = <<>>
    THEN IoErr("InvalidInput", "Invalid argument")
    ELSE IF link \notin DOMAIN f.tree
    THEN IoErr("NotFound", "No such file or directory")
    ELSE IF f.tree[link].kind # "link"
    THEN IoErr("InvalidInput", "Invalid argument")
    ELSE read_link_then(link, f.tree[link])

\* A set of gitignore lines: each names an entry, at any depth, and with
\* dir_only (a trailing "/") only a directory.
IgnorePattern(name, dir_only) == [name |-> name, dir_only |-> dir_only]

\* GitignoreStyleExcludes::is_ignored: a Link is matched as a non-directory.
is_ignored_never(patterns, stat) == FALSE
is_ignored(patterns, stat) ==
    LET is_dir == (stat.kind = "Dir") IN
        \E pat \in patterns :
            /\ pat.name = Last(stat.path)
            /\ pat.dir_only => is_dir

\* glob::Pattern::matches_path on one file name.
Matches(pattern, name) ==
    IF pattern = "*" \/ pattern = "**" THEN TRUE
    ELSE IF pattern = "[*]" THEN name = "*"
    ELSE pattern = name

\* glob::Pattern::escape on one segment.
Escape(seg) == IF seg = "*" THEN "[*]" ELSE seg

\* StrictGlobMatching and Conjunction
Strictness == {"Error", "Warn", "Ignore"}
Conjunctions == {"And", "Or"}

should_check_glob_matches_always(strict) == TRUE
should_check_glob_matches(strict) == IF strict = "Ignore" THEN FALSE ELSE TRUE

should_throw_on_warn_too(strict) == strict # "Ignore"
should_throw_on_error(strict) == IF strict = "Error" THEN TRUE ELSE FALSE

\* PathGlobs::from_globs: the request that resolves a link's target has no
\* excludes (EMPTY_IGNORE), ignores unmatched globs, and is a conjunction.
from_globs(globs) ==
    [include |-> [i \in 1..Len(globs) |-> [input |-> <<"">>, globs |-> <<globs[i]>>]],
     exclude |-> {}, strict_match_behavior |-> "Ignore", conjunction |-> "And"]

----------------------------------------------------------------------------
(* The expansion of globs against the VFS (the GlobMatching module).  A    *)
(* result carries, beside its value or error, the directories that were    *)
(* listed and the number of links that were read to produce it.            *)

NoError == [kind |-> "", msg |-> ""]
Res(v, sc, h) == [ok |-> TRUE, val |-> v, err |-> NoError, scanned |-> sc, hops |-> h]
Fail(e, sc, h) == [ok |-> FALSE, val |-> <<>>, err |-> e, scanned |-> sc, hops |-> h]

\* join_all of two futures: both values in order, or an error.
Both(x, y) ==
    IF x.ok /\ y.ok
    THEN Res(x.val \o y.val, x.scanned \cup y.scanned, x.hops + y.hops)
    ELSE Fail(IF x.ok THEN y.err ELSE x.err, x.scanned \cup y.scanned,
              x.hops + y.hops)

\* VFS::mk_error of PosixFS
mk_error(msg) == [kind |-> "Other", msg |-> msg]

\* The traversal bound of the canonicalizer, and the error past it.
MAX_LINK_DEPTH == 3
CYCLE == mk_error("Maximum link depth exceeded")

\* The fragments that continue a DirWildcard in a PathStat it matched.
ChildGlobsOf(ps, remainder) ==
    IF ps.kind # "Dir" THEN Ok(<<>>)
    ELSE parse_globs(ps.stat.path, ps.path, remainder)

\* Those of every PathStat, collected: the first error, or all of them.
ChildGlobs(path_stats, remainder) ==
    LET globs == [i \in 1..Len(path_stats) |->
                     ChildGlobsOf(path_stats[i], remainder)]
        failed == {i \in 1..Len(path_stats) : ~globs[i].ok}
    IN  IF failed # {}
        THEN globs[CHOOSE i \in failed : \A j \in failed : i <= j]
        ELSE Ok(Concat([i \in 1..Len(path_stats) |-> globs[i].val]))

\* join_all of a Vec of futures.
\* What any of them scanned, and the links all of them read.
AllScanned(rs) == UNION {rs[i].scanned : i \in DOMAIN rs}
AllHops(rs) ==
    Cardinality(UNION {{<<i, h>> : h \in 1..rs[i].hops} : i \in DOMAIN rs})

\* The values of all in order, or the first error.
JoinResults(rs) ==
    IF \A i \in DOMAIN rs : rs[i].ok
    THEN Res(Concat([i \in DOMAIN rs |-> rs[i].val]), AllScanned(rs),
             AllHops(rs))
    ELSE Fail(rs[CHOOSE i \in DOMAIN rs :
                    ~rs[i].ok /\ \A j \in 1..(i - 1) : rs[j].ok].err,
              AllScanned(rs), AllHops(rs))

\* The PathStat a link was resolved to, under the link's own path.
Relabel(symbolic, r) ==
    IF r.ok /\ r.val # <<>>
    THEN Res(<<PathStatOf(symbolic, r.val[1].stat)>>, r.scanned, r.hops)
    ELSE r

\* GlobMatching::canonicalize, given what every link of the tree resolves
\* to where this link is met.
canonicalize(symbolic, link, links) ==
    Relabel(symbolic,
            links[CHOOSE i \in 1..Len(links) : links[i].link = link.path].to)

RECURSIVE expand_single(_, _, _, _)
RECURSIVE expand_all(_, _, _, _)

\* Whether the listing drops the entry: ignored by the VFS or by the
\* excludes of the request.
Dropped(f, exclude, stat) ==
    is_ignored(f.ignore, stat) \/ is_ignored(exclude, stat)

\* One entry of a listing: nothing unless it matches the wildcard and is
\* not ignored; else its PathStat, a Link canonicalized first.
ListEntry(f, stat, spath, w, exclude, links) ==
    IF ~Matches(w, Last(stat.path)) \/ Dropped(f, exclude, stat)
    THEN Res(<<>>, {}, 0)
    ELSE IF stat.kind = "Link"
    THEN canonicalize(Append(spath, Last(stat.path)), stat, links)
    ELSE Res(<<PathStatOf(Append(spath, Last(stat.path)), stat)>>, {}, 0)

\* The futures of the entries of a listing, joined in the listing's order.
ListingFrom(f, listing, spath, w, exclude, links) ==
    [i \in 1..Len(listing) |->
        ListEntry(f, listing[i], spath, w, exclude, links)]

AfterScandir(f, cdir, sc, spath, w, exclude, links) ==
    IF ~sc.ok THEN Fail([kind |-> sc.kind, msg |-> sc.msg], {cdir}, 0)
    ELSE Both(Res(<<>>, {cdir}, 0),
              JoinResults(ListingFrom(f, sc.val, spath, w, exclude, links)))

directory_listing(f, cdir, spath, w, exclude, links) ==
    AfterScandir(f, cdir, scandir_sync(f, cdir), spath, w, exclude, links)

\* expand_dir_wildcard, once the children's fragments are parsed.
Descend(f, dl, children, exclude, links) ==
    IF ~children.ok THEN Fail(mk_error(children.err), dl.scanned, dl.hops)
    ELSE Both(Res(<<>>, dl.scanned, dl.hops),
              expand_all(f, children.val, exclude, links))

\* expand_wildcard and expand_dir_wildcard, once the directory is listed.
AfterListing(f, glob, dl, exclude, links) ==
    IF glob.kind = "Wildcard" \/ ~dl.ok THEN dl
    ELSE Descend(f, dl, ChildGlobs(dl.val, glob.remainder), exclude, links)

expand_single(f, glob, exclude, links) ==
    AfterListing(f, glob,
                 directory_listing(f, glob.canonical_dir, glob.symbolic_path,
                                   glob.wildcard, exclude, links),
                 exclude, links)

expand_all(f, globs, exclude, links) ==
    JoinResults([i \in 1..Len(globs) |->
                    expand_single(f, globs[i], exclude, links)])

\* The end of an expansion: sorted by symbolic path, one entry per path.
SortedAsArrived(path_stats) == path_stats
SortedDeduped(path_stats) == dedup_by_path(sort_by_path(path_stats))

Sorted(r) ==
    IF r.ok THEN Res(SortedDeduped(r.val), r.scanned, r.hops) ELSE r

\* The error of a request whose globs did not match, and the condition
\* for it: every entry has to match, or one of them.
UNMATCHED == mk_error("Globs did not match")

match_failed(conjunction, n, hit) ==
    IF conjunction = "And" THEN \E i \in 1..n : i \notin hit ELSE hit = {}

\* The fragments of each include entry expanded, entry by entry.
EntryResults(f, entries, exclude, links) ==
    [i \in 1..Len(entries) |->
        expand_all(f, entries[i].globs, exclude, links)]

Hits(rs) == {i \in 1..Len(rs) : rs[i].val # <<>>}

\* Whether the request is to fail for its unmatched globs.
Throws(path_globs, n, hit) ==
    /\ should_check_glob_matches(path_globs.strict_match_behavior)
    /\ match_failed(path_globs.conjunction, n, hit)
    /\ should_throw_on_error(path_globs.strict_match_behavior)

Checked(path_globs, rs, all) ==
    IF ~all.ok THEN all
    ELSE IF Throws(path_globs, Len(rs), Hits(rs))
    THEN Fail(UNMATCHED, all.scanned, all.hops)
    ELSE Sorted(all)

CheckedAll(path_globs, rs) == Checked(path_globs, rs, JoinResults(rs))

\* GlobMatching::expand with every directory expanded in turn.
expand(f, path_globs, links) ==
    CheckedAll(path_globs,
               EntryResults(f, path_globs.include, path_globs.exclude, links))

\* The fragments of a link's destination: escaped, so that they match one
\* path at most; none when the destination does not parse.
OkOrEmpty(g) == IF g.ok THEN g.val ELSE <<>>
LinkGlobs(dest) == OkOrEmpty(create(<<[i \in 1..Len(dest) |-> Escape(dest[i])]>>))

\* Of what the destination of a link matched, the last; one link more
\* has been read.
Destination(r) ==
    IF ~r.ok THEN Fail(r.err, r.scanned, r.hops + 1)
    ELSE IF r.val = <<>> THEN Res(<<>>, r.scanned, r.hops + 1)
    ELSE Res(<<Last(r.val)>>, r.scanned, r.hops + 1)

\* One step of the canonicalizer: the target of the link is read, escaped,
\* parsed and expanded like a request of its own, the links it meets
\* resolved one step further on.
AfterReadLink(f, rl, links) ==
    IF ~rl.ok THEN Fail([kind |-> rl.kind, msg |-> rl.msg], {}, 1)
    ELSE Destination(expand(f, from_globs(LinkGlobs(rl.val)), links))

\* The links of the tree.
LinkPaths(f) == ReadDirOf({p \in DOMAIN f.tree : f.tree[p].kind = "link"})

\* What every link resolves to, from what each resolves to one step on.
Hop(f, further) ==
    [i \in 1..Len(further) |->
        [link |-> further[i].link,
         to |-> AfterReadLink(f, read_link(f, further[i].link), further)]]

\* What every link of the tree resolves to after `depth` links were read
\* on the way to it: past the traversal bound, the cycle error.
RECURSIVE LinkTable(_, _)
LinkTable(f, depth) ==
    IF depth >= MAX_LINK_DEPTH
    THEN [i \in 1..Len(LinkPaths(f)) |->
             [link |-> LinkPaths(f)[i], to |-> Fail(CYCLE, {}, 0)]]
    ELSE Hop(f, LinkTable(f, depth + 1))

----------------------------------------------------------------------------
(* The parser driven from its two entry points.                            *)

Filespecs == SeqsUpTo(Segments, MaxSegs) \ {<<>>}

CanonicalDirs == {<<>>, <<"a">>, <<"a", "b">>}

NoRequest ==
    [include |-> <<>>, exclude |-> {}, strict_match_behavior |-> "Ignore",
     conjunction |-> "And"]

\* The expansion engine at rest.
IdleExpand ==
    /\ fsys = "roland"
    /\ link_table = <<>>
    /\ request = NoRequest
    /\ pending = <<>>
    /\ result = <<>>
    /\ scanned = {}
    /\ listed = {}
    /\ outcome = [ok |-> TRUE, val |-> <<>>, err |-> NoError]
    /\ epc = "init"
    /\ matched = {}
    /\ unmatched = {}

\* No path_stats under way.
IdlePaths ==
    /\ paths = <<>>
    /\ slots = <<>>
    /\ completed = <<>>
    /\ batch = [ok |-> TRUE, val |-> <<>>, err |-> NoError]
    /\ spc = "init"

\* No call on a PosixFS.
IdleVfs ==
    /\ vfs_op = "none"
    /\ vfs_path = <<>>
    /\ vfs_ret = IoOk(<<>>)

\* No constructor called.
IdleBuild ==
    /\ args = <<>>
    /\ built = Ok(<<>>)
    /\ bpc = "init"

\* No VcfsInstance.
IdleRpc ==
    /\ message_id_counter = [hi |-> 0, lo |-> 0]
    /\ first_id = [hi |-> 0, lo |-> 0]
    /\ handed = <<>>
    /\ client_lock = 0
    /\ callers = <<>>
    /\ to_server = <<>>
    /\ to_client = <<>>
    /\ socket = "up"

\* No descriptor read.
IdleShm ==
    /\ bytes = <<>>
    /\ fd = <<>>
    /\ file = <<>>
    /\ shm_pc = "init"

\* No call of safe_create_dir_all_ioerror.
IdleDirs ==
    /\ dirs = {}
    /\ workers = <<>>

\* The parser at rest.
IdleParse ==
    /\ mode = "idle"
    /\ include = <<>>
    /\ canonical_dir = <<>>
    /\ symbolic_path = <<>>
    /\ parts = <<>>
    /\ parsed = Ok(<<>>)
    /\ ppc = "init"

InitParse ==
    /\ IdleExpand
    /\ IdlePaths
    /\ IdleVfs
    /\ IdleBuild
    /\ IdleRpc
    /\ IdleShm
    /\ IdleDirs
    /\ ppc = "init"
    /\ parsed = Ok(<<>>)
    /\ \/ /\ mode = "create"
          /\ include \in {<<f>> : f \in Filespecs}
          /\ canonical_dir = <<>>
          /\ symbolic_path = <<>>
          /\ parts = <<>>
       \/ /\ mode = "parse_globs"
          /\ include = <<>>
          /\ canonical_dir \in CanonicalDirs
          /\ symbolic_path \in {canonical_dir, <<"l">>}
          /\ parts \in SeqsUpTo(PartTexts, MaxParts)

\* PathGlob::create(filespecs)
Create ==
    /\ mode = "create" /\ ppc = "init"
    /\ parsed' = create(include)
    /\ ppc' = "parsed"
    /\ UNCHANGED <<mode, include, canonical_dir, symbolic_path, parts>>
    /\ UNCHANGED <<expandVars, pathVars, vfsVars, buildVars, rpcVars,
                 shmVars, dirVars>>

\* PathGlob::parse_globs(canonical_dir, symbolic_path, parts), as the
\* expansion of a DirWildcard calls it on a matched directory.
ParseGlobs ==
    /\ mode = "parse_globs" /\ ppc = "init"
    /\ parsed' = parse_globs(canonical_dir, symbolic_path, parts)
    /\ ppc' = "parsed"
    /\ UNCHANGED <<mode, include, canonical_dir, symbolic_path, parts>>
    /\ UNCHANGED <<expandVars, pathVars, vfsVars, buildVars, rpcVars,
                 shmVars, dirVars>>

NextParse == Create \/ ParseGlobs

SpecParse == InitParse /\ [][NextParse]_vars

----------------------------------------------------------------------------
(* GlobMatching::expand of one request, its expand_single futures          *)
(* completing in any order.                                                *)

\* The filespecs of the requests, and their excludes.
Includes ==
    { << <<"subdir", "**">> >>,
      << <<"subdir", "**", "*">> >>,
      << <<"hammock", "**">> >>,
      << <<"hammock", "**", "*">> >>,
      << <<"**">>, <<"*">> >>,
      << <<"subdir", "..", "*">>, <<"subdir", "*">> >>,
      << <<"subdir", "..", "..", "*">> >>,
      << <<"**", "..">> >>,
      << <<"", "subdir">> >> }

Excludes ==
    { {}, {IgnorePattern("hammock", FALSE)}, {IgnorePattern("symlink", TRUE)} }

\* Requests of several entries, of which all, some or none match.
StrictIncludes ==
    { << <<"subdir", "*">>, <<"nothing", "*">> >>,
      << <<"nothing">>, <<"nada", "*">> >>,
      << <<"subdir", "*">>, <<"*">> >> }

\* Every request with the default policy, and those of several entries with
\* every policy.
Requests ==
    [include : Includes, exclude : Excludes,
     strict_match_behavior : {"Ignore"}, conjunction : {"And"}]
    \cup [include : StrictIncludes, exclude : {{}},
          strict_match_behavior : Strictness, conjunction : Conjunctions]

ExpandFs == {"roland", "enclosure", "loop", "loop_linked", "marmosets"}

Outcome(r) == [ok |-> r.ok, val |-> r.val, err |-> r.err]

\* One future per fragment, each with the index of its include entry.
RECURSIVE TasksOf(_, _)
TasksOf(entries, i) ==
    IF i > Len(entries) THEN <<>>
    ELSE [k \in 1..Len(entries[i].globs) |->
             [glob |-> entries[i].globs[k], source |-> i]]
         \o TasksOf(entries, i + 1)

Remove(seq, i) == SubSeq(seq, 1, i - 1) \o SubSeq(seq, i + 1, Len(seq))

InitExpand ==
    /\ fsys \in ExpandFs
    /\ link_table = LinkTable(FS(fsys), 0)
    /\ IdleParse
    /\ IdlePaths
    /\ IdleVfs
    /\ IdleBuild
    /\ IdleRpc
    /\ IdleShm
    /\ IdleDirs
    /\ request \in Requests
    /\ pending = <<>>
    /\ result = <<>>
    /\ scanned = {}
    /\ listed = {}
    /\ outcome = [ok |-> TRUE, val |-> <<>>, err |-> NoError]
    /\ epc = "init"
    /\ matched = {}
    /\ unmatched = {}

\* PathGlobs::create, and the futures expand starts for its fragments.
PathGlobsCreate ==
    /\ epc = "init"
    /\ LET e == spread_filespecs(request.include) IN
        IF e.ok
        THEN /\ pending' = TasksOf(e.val, 1)
             /\ epc' = "expanding"
             /\ UNCHANGED outcome
        ELSE /\ outcome' = [ok |-> FALSE, val |-> <<>>, err |-> mk_error(e.err)]
             /\ epc' = "rejected"
             /\ UNCHANGED pending
    /\ UNCHANGED <<fsys, link_table, request, result, scanned, listed, matched, unmatched>>
    /\ UNCHANGED <<parseVars, pathVars, vfsVars, buildVars, rpcVars,
                 shmVars, dirVars>>

\* One expand_single future, its directory listed: a Wildcard extends the
\* result, a DirWildcard starts the futures of its children.
Completed(i, glob, dl, children) ==
    /\ scanned' = scanned \cup dl.scanned
    /\ listed' = listed \cup {[canonical_dir |-> glob.canonical_dir,
                               symbolic_path |-> glob.symbolic_path]}
    /\ matched' = IF glob.kind = "Wildcard" /\ dl.ok /\ dl.val # <<>>
                  THEN matched \cup {pending[i].source}
                  ELSE matched
    /\ IF ~dl.ok \/ ~children.ok
       THEN /\ epc' = "failed"
            /\ outcome' = [ok |-> FALSE, val |-> <<>>,
                           err |-> IF dl.ok THEN mk_error(children.err) ELSE dl.err]
            /\ pending' = <<>>
            /\ UNCHANGED result
       ELSE /\ pending' = Remove(pending, i)
                 \o [k \in 1..Len(children.val) |->
                        [glob |-> children.val[k], source |-> pending[i].source]]
            /\ result' = IF glob.kind = "Wildcard" THEN result \o dl.val ELSE result
            /\ UNCHANGED <<epc, outcome>>

Listed(i, glob, dl) ==
    Completed(i, glob, dl,
              IF glob.kind = "DirWildcard" /\ dl.ok
              THEN ChildGlobs(dl.val, glob.remainder)
              ELSE Ok(<<>>))

ExpandSingle(i) ==
    /\ epc = "expanding"
    /\ i \in 1..Len(pending)
    /\ Listed(i, pending[i].glob,
              directory_listing(FS(fsys), pending[i].glob.canonical_dir,
                                pending[i].glob.symbolic_path,
                                pending[i].glob.wildcard, request.exclude,
                                link_table))
    /\ UNCHANGED <<fsys, link_table, request, unmatched>>
    /\ UNCHANGED <<parseVars, pathVars, vfsVars, buildVars, rpcVars,
                 shmVars, dirVars>>

\* The inputs of the include entries that matched nothing.
NonMatching(req, hit) ==
    {req.include[i] : i \in {k \in 1..Len(req.include) : k \notin hit}}

\* Every future has completed: the globs that did not match fail the
\* request or are warned about, as its policy says; else the result is
\* sorted and deduplicated.
Finish ==
    /\ epc = "expanding"
    /\ pending = <<>>
    /\ IF Throws(request, Len(request.include), matched)
       THEN /\ outcome' = [ok |-> FALSE, val |-> <<>>, err |-> UNMATCHED]
            /\ unmatched' = NonMatching(request, matched)
            /\ epc' = "failed"
       ELSE /\ outcome' = [ok |-> TRUE, val |-> SortedDeduped(result), err |-> NoError]
            /\ unmatched' =
                   IF /\ should_check_glob_matches(request.strict_match_behavior)
                      /\ match_failed(request.conjunction, Len(request.include), matched)
                   THEN NonMatching(request, matched)
                   ELSE {}
            /\ epc' = "done"
    /\ UNCHANGED <<fsys, link_table, request, pending, result, scanned, listed, matched>>
    /\ UNCHANGED <<parseVars, pathVars, vfsVars, buildVars, rpcVars,
                 shmVars, dirVars>>

NextExpand ==
    \/ PathGlobsCreate
    \/ \E i \in 1..Len(pending) : ExpandSingle(i)
    \/ Finish

SpecExpand == InitExpand /\ [][NextExpand]_vars

----------------------------------------------------------------------------
(* PathStatGetter::path_stats of PosixFS: one future per path on the pool, *)
(* completing in any order, and join_all over them.                        *)

PathFs == {"marmosets", "chain", "vault"}

\* The paths asked about: those of the test path_stats_for_paths, and the
\* links of the chains.
PathInputs(name) ==
    IF name = "marmosets"
    THEN { <<"executable_file">>, <<"dir">>, <<"dir", "recursive_symlink">>,
           <<"dir_symlink">>, <<"symlink_to_nothing">>, <<"doesnotexist">> }
    ELSE IF name = "chain"
    THEN { <<"a_marmoset">>, <<"chain3">>, <<"chain4">>, <<"ping">>,
           <<"outside">>, <<"star">> }
    ELSE { <<"a_marmoset">>, <<"abs">>, <<"dev", "null">>, <<"doesnotexist">>,
           <<"link">>, <<"locked", "feed">>, <<"nowhere">> }

NoStat == [kind |-> "", path |-> <<>>, is_executable |-> FALSE]

\* A future of path_stats: spawned; stat_path done and a Link to
\* canonicalize ("link"); resolved ("ready") to Some (<<path_stat>>) or
\* None (<<>>); or failed ("error").
Slot(st, link, val, err, hops) ==
    [st |-> st, link |-> link, val |-> val, err |-> err, hops |-> hops]

Finished(i) == slots[i].st \in {"ready", "error"}

InitPathStats ==
    /\ fsys \in PathFs
    /\ link_table = LinkTable(FS(fsys), 0)
    /\ IdleParse
    /\ IdleVfs
    /\ IdleBuild
    /\ IdleRpc
    /\ IdleShm
    /\ IdleDirs
    /\ request = NoRequest
    /\ pending = <<>>
    /\ result = <<>>
    /\ scanned = {}
    /\ listed = {}
    /\ outcome = [ok |-> TRUE, val |-> <<>>, err |-> NoError]
    /\ epc = "init"
    /\ matched = {}
    /\ unmatched = {}
    /\ paths \in SeqsUpTo(PathInputs(fsys), MaxPaths) \ {<<>>}
    /\ slots = <<>>
    /\ completed = <<>>
    /\ batch = [ok |-> TRUE, val |-> <<>>, err |-> NoError]
    /\ spc = "init"

\* path_stats: a stat_path is spawned on the pool for every path.
PathStats ==
    /\ spc = "init"
    /\ slots' = [i \in 1..Len(paths) |-> Slot("spawned", NoStat, <<>>, NoError, 0)]
    /\ spc' = "running"
    /\ UNCHANGED <<paths, completed, batch>>
    /\ UNCHANGED <<parseVars, expandVars, vfsVars, buildVars, rpcVars,
                 shmVars, dirVars>>

\* The `then` after stat_path: NotFound is None, any other error fails.
AfterStatPathKeepsLink(i, stat_result) ==
    IF stat_result.ok
    THEN Slot("ready", NoStat,
              <<PathStatOf(stat_result.val.path, stat_result.val)>>, NoError, 0)
    ELSE IF stat_result.kind = "NotFound"
    THEN Slot("ready", NoStat, <<>>, NoError, 0)
    ELSE Slot("error", NoStat, <<>>,
              [kind |-> stat_result.kind, msg |-> stat_result.msg], 0)
AfterStatPath(i, stat_result) ==
    IF stat_result.ok
    THEN IF stat_result.val.kind = "Link"
         THEN Slot("link", stat_result.val, <<>>, NoError, 0)
         ELSE Slot("ready", NoStat,
                   <<PathStatOf(stat_result.val.path, stat_result.val)>>, NoError, 0)
    ELSE IF stat_result.kind = "NotFound"
    THEN Slot("ready", NoStat, <<>>, NoError, 0)
    ELSE Slot("error", NoStat, <<>>,
              [kind |-> stat_result.kind, msg |-> stat_result.msg], 0)

\* The stat_path of one path runs on the pool.
StatPath(i) ==
    /\ spc = "running"
    /\ i \in 1..Len(paths)
    /\ slots[i].st = "spawned"
    /\ slots' = [slots EXCEPT ![i] = AfterStatPath(i, stat_path(FS(fsys), paths[i]))]
    /\ completed' = IF slots'[i].st = "link" THEN completed ELSE Append(completed, i)
    /\ UNCHANGED <<paths, batch, spc>>
    /\ UNCHANGED <<parseVars, expandVars, vfsVars, buildVars, rpcVars,
                 shmVars, dirVars>>

\* The `and_then` on a Link: fs.canonicalize(link.0.clone(), &link).
AfterCanonicalizeErrorIsNone(link, c) ==
    Slot("ready", link, IF c.ok THEN c.val ELSE <<>>, NoError, c.hops)
AfterCanonicalize(link, c) ==
    IF c.ok THEN Slot("ready", link, c.val, NoError, c.hops)
    ELSE Slot("error", link, <<>>, c.err, c.hops)

Canonicalize(i) ==
    /\ spc = "running"
    /\ i \in 1..Len(paths)
    /\ slots[i].st = "link"
    /\ slots' = [slots EXCEPT ![i] =
                    AfterCanonicalize(slots[i].link,
                        canonicalize(slots[i].link.path, slots[i].link, link_table))]
    /\ completed' = Append(completed, i)
    /\ UNCHANGED <<paths, batch, spc>>
    /\ UNCHANGED <<parseVars, expandVars, vfsVars, buildVars, rpcVars,
                 shmVars, dirVars>>

\* join_all: the values of the futures, each at the place of its future.
AssembleAsCompleted(sl, order) == [k \in 1..Len(order) |-> sl[order[k]].val]
Assemble(sl, order) == [i \in 1..Len(sl) |-> sl[i].val]

\* join_all, every future resolved.
JoinAll ==
    /\ spc = "running"
    /\ \A i \in 1..Len(paths) : slots[i].st = "ready"
    /\ batch' = [ok |-> TRUE, val |-> Assemble(slots, completed), err |-> NoError]
    /\ spc' = "done"
    /\ UNCHANGED <<paths, slots, completed>>
    /\ UNCHANGED <<parseVars, expandVars, vfsVars, buildVars, rpcVars,
                 shmVars, dirVars>>

\* join_all, polled with a failed future: the first of them in the order
\* of the paths fails the batch, and the futures still running are dropped.
JoinAllErr ==
    /\ spc = "running"
    /\ \E i \in 1..Len(paths) :
        /\ slots[i].st = "error"
        /\ \A j \in 1..(i - 1) : slots[j].st # "error"
        /\ batch' = [ok |-> FALSE, val |-> <<>>, err |-> slots[i].err]
    /\ spc' = "failed"
    /\ UNCHANGED <<paths, slots, completed>>
    /\ UNCHANGED <<parseVars, expandVars, vfsVars, buildVars, rpcVars,
                 shmVars, dirVars>>

NextPathStats ==
    \/ PathStats
    \/ \E i \in 1..Len(paths) : StatPath(i)
    \/ \E i \in 1..Len(paths) : Canonicalize(i)
    \/ JoinAll
    \/ JoinAllErr

SpecPathStats == InitPathStats /\ [][NextPathStats]_vars

----------------------------------------------------------------------------
(* The calls on a PosixFS: one call on one path of one filesystem.         *)

PosixFsNames ==
    {"marmosets", "enclosure", "roland", "loop", "loop_linked", "chain", "zoo"}

\* The root, every entry below it, and a path that does not exist.
VfsPaths(name) ==
    {<<>>} \cup DOMAIN FS(name).tree \cup {<<"no_marmosets_here">>}

InitPosixFS ==
    /\ IdleParse
    /\ IdlePaths
    /\ request = NoRequest
    /\ pending = <<>>
    /\ result = <<>>
    /\ scanned = {}
    /\ listed = {}
    /\ outcome = [ok |-> TRUE, val |-> <<>>, err |-> NoError]
    /\ epc = "init"
    /\ matched = {}
    /\ unmatched = {}
    /\ IdleBuild
    /\ IdleRpc
    /\ IdleShm
    /\ IdleDirs
    /\ fsys \in PosixFsNames
    /\ link_table = <<>>
    /\ vfs_op = "none"
    /\ vfs_path \in VfsPaths(fsys)
    /\ vfs_ret = IoOk(<<>>)

\* PosixFS::stat
Stat ==
    /\ vfs_op = "none"
    /\ vfs_op' = "stat"
    /\ vfs_ret' = stat_path(FS(fsys), vfs_path)
    /\ UNCHANGED <<vfs_path, parseVars, expandVars, pathVars, buildVars, rpcVars,
                 shmVars, dirVars>>

\* VFS::scandir of a Dir.  (read_dir follows a link; the model's
\* scandir_sync takes real paths, so no link is scanned here.)
Scandir ==
    /\ vfs_op = "none"
    /\ vfs_path \in DOMAIN FS(fsys).tree => FS(fsys).tree[vfs_path].kind # "link"
    /\ vfs_op' = "scandir"
    /\ vfs_ret' = scandir_sync(FS(fsys), vfs_path)
    /\ UNCHANGED <<vfs_path, parseVars, expandVars, pathVars, buildVars, rpcVars,
                 shmVars, dirVars>>

\* VFS::read_link of a Link.
ReadLink ==
    /\ vfs_op = "none"
    /\ vfs_op' = "read_link"
    /\ vfs_ret' = read_link(FS(fsys), vfs_path)
    /\ UNCHANGED <<vfs_path, parseVars, expandVars, pathVars, buildVars, rpcVars,
                 shmVars, dirVars>>

NextPosixFS == Stat \/ Scandir \/ ReadLink

SpecPosixFS == InitPosixFS /\ [][NextPosixFS]_vars

----------------------------------------------------------------------------
(* The constructors: StrictGlobMatching::create, Conjunction::create,      *)
(* PathGlobs::create and PosixFS::new.                                     *)

\* StrictGlobMatching::create
StrictGlobMatching_create_any_case(behavior) ==
    IF behavior \in {"ignore", "Ignore"} THEN Ok("Ignore")
    ELSE IF behavior \in {"warn", "Warn"} THEN Ok("Warn")
    ELSE IF behavior \in {"error", "ERROR"} THEN Ok("Error")
    ELSE Err("Unrecognized strict glob matching behavior", behavior)
StrictGlobMatching_create(behavior) ==
    IF behavior = "ignore" THEN Ok("Ignore")
    ELSE IF behavior = "warn" THEN Ok("Warn")
    ELSE IF behavior = "error" THEN Ok("Error")
    ELSE Err("Unrecognized strict glob matching behavior", behavior)

\* Conjunction::create
Conjunction_create(spec) ==
    IF spec = "and" THEN Ok("And")
    ELSE IF spec = "or" THEN Ok("Or")
    ELSE Err("Unrecognized conjunction", spec)

\* GitignoreBuilder::add_line on the lines of the model: the name of an
\* entry, a name with a trailing "/" (directories only), and a line that
\* does not compile as a glob.
ExcludeLines == {"hammock", "symlink/", "["}

add_line(line) ==
    IF line = "[" THEN Err("error parsing glob", line)
    ELSE IF line = "symlink/" THEN Ok(IgnorePattern("symlink", TRUE))
    ELSE Ok(IgnorePattern(line, FALSE))

\* GitignoreStyleExcludes::create_gitignore: the first line that fails, or
\* the matcher of all the lines.
create_gitignore(patterns) ==
    IF \A i \in DOMAIN patterns : add_line(patterns[i]).ok
    THEN Ok({add_line(patterns[i]).val : i \in DOMAIN patterns})
    ELSE add_line(patterns[CHOOSE i \in DOMAIN patterns :
                      /\ ~add_line(patterns[i]).ok
                      /\ \A j \in 1..(i - 1) : add_line(patterns[j]).ok])

EMPTY_IGNORE == {}

\* GitignoreStyleExcludes::create
ExcludesOrError(patterns, gitignore) ==
    IF gitignore.ok THEN gitignore
    ELSE Err("Could not parse glob excludes", patterns)

GitignoreStyleExcludes_create(patterns) ==
    IF patterns = <<>> THEN Ok(EMPTY_IGNORE)
    ELSE ExcludesOrError(patterns, create_gitignore(patterns))

\* PathGlobs::create_with_globs_and_match_behavior
WithExcludes(entries, gitignore_excludes, strict_match_behavior, conjunction) ==
    IF ~gitignore_excludes.ok THEN gitignore_excludes
    ELSE Ok([include |-> entries, exclude |-> gitignore_excludes.val,
             strict_match_behavior |-> strict_match_behavior,
             conjunction |-> conjunction])

create_with_globs_and_match_behavior(entries, exclude, strict, conjunction) ==
    WithExcludes(entries, GitignoreStyleExcludes_create(exclude), strict,
                 conjunction)

\* PathGlobs::create
WithIncludesBestEffort(entries, exclude, strict_match_behavior, conjunction) ==
    create_with_globs_and_match_behavior(OkOrEmpty(entries), exclude,
                                         strict_match_behavior, conjunction)
WithIncludes(entries, exclude, strict_match_behavior, conjunction) ==
    IF ~entries.ok THEN entries
    ELSE create_with_globs_and_match_behavior(entries.val, exclude,
                                              strict_match_behavior, conjunction)

PathGlobs_create(filespecs, exclude, strict_match_behavior, conjunction) ==
    WithIncludes(spread_filespecs(filespecs), exclude, strict_match_behavior,
                 conjunction)

\* What is at and under "/" where a PosixFS is made: directories, a file,
\* links to a directory (relative, absolute, through another link, and
\* one to the parent directory), a link to a file, a link to nothing and
\* two links to each other.
RootPairs ==
    << <<<<"build">>, DirEntry>>,
       <<<<"build", "src">>, DirEntry>>,
       <<<<"build", "up">>, LinkEntry(<<"..">>)>>,
       <<<<"file">>, FileEntry(FALSE)>>,
       <<<<"to_build">>, LinkEntry(<<"build">>)>>,
       <<<<"to_src">>, LinkEntry(<<"to_build", "src">>)>>,
       <<<<"abs_build">>, AbsLinkEntry(<<"", "build">>)>>,
       <<<<"to_file">>, LinkEntry(<<"file">>)>>,
       <<<<"dangling">>, LinkEntry(<<"missing">>)>>,
       <<<<"ping">>, LinkEntry(<<"pong">>)>>,
       <<<<"pong">>, LinkEntry(<<"ping">>)>> >>

World == TreeOf(RootPairs)

\* std::fs::canonicalize (realpath) of an absolute path, given from "/":
\* every link on the way is followed, ".." leaves a directory, a missing
\* entry is an error, and so is a chain that reads more links than there
\* are (no path of the model reads a link twice unless on a cycle).
RECURSIVE Realpath(_, _, _, _)
Realpath(tree, done, rest, fuel) ==
    IF rest = <<>> THEN IoOk(done)
    ELSE IF Head(rest) = PARENT_DIR
    THEN Realpath(tree, Parent(done), Tail(rest), fuel)
    ELSE IF Append(done, Head(rest)) \notin DOMAIN tree
    THEN IoErr("NotFound", "No such file or directory")
    ELSE IF tree[Append(done, Head(rest))].kind = "link"
    THEN IF fuel = 0
         THEN IoErr("Other", "Too many levels of symbolic links")
         ELSE IF tree[Append(done, Head(rest))].abs
         THEN Realpath(tree, <<>>,
                       Tail(tree[Append(done, Head(rest))].target) \o Tail(rest),
                       fuel - 1)
         ELSE Realpath(tree, done,
                       tree[Append(done, Head(rest))].target \o Tail(rest),
                       fuel - 1)
    ELSE IF tree[Append(done, Head(rest))].kind # "dir" /\ Tail(rest) # <<>>
    THEN IoErr("Other", "Not a directory")
    ELSE Realpath(tree, Append(done, Head(rest)), Tail(rest), fuel)

Path_canonicalize(tree, path) ==
    Realpath(tree, <<>>, path,
             Cardinality({p \in DOMAIN tree : tree[p].kind = "link"}))

\* Metadata::is_dir of a canonical path.
metadata_is_dir(tree, canonical) ==
    canonical = <<>> \/ tree[canonical].kind = "dir"

\* The and_then of PosixFS::new: the canonical root, if it is a directory.
DirOrErrorUnchecked(tree, canonical) == canonical
DirOrError(tree, canonical) ==
    IF ~canonical.ok THEN canonical
    ELSE IF metadata_is_dir(tree, canonical.val) THEN IoOk(canonical.val)
    ELSE IoErr("InvalidInput", "Not a directory.")

\* PosixFS::new
Rooted(root, canonical_root, ignore_patterns, ignore) ==
    IF ~canonical_root.ok THEN Err("Could not canonicalize root", root)
    ELSE IF ~ignore.ok
    THEN Err("Could not parse build ignore inputs", ignore_patterns)
    ELSE Ok([root |-> canonical_root.val, ignore |-> ignore.val])

PosixFS_new(tree, root, ignore_patterns) ==
    Rooted(root, DirOrError(tree, Path_canonicalize(tree, root)),
           ignore_patterns, GitignoreStyleExcludes_create(ignore_patterns))

\* The tokens given for a strictness or a conjunction.
Tokens ==
    {"ignore", "warn", "error", "and", "or", "Ignore", "Warn", "ERROR", "And",
     "OR", "", "ignore ", "errors", "xor"}

\* The filespecs given to PathGlobs::create: three that parse, an absolute
\* one, one that leaves the root and one that is no glob.
CreateFilespecs ==
    {<<"a">>, <<"a", "*">>, <<"**">>, <<"", "a">>, <<"..", "a">>, <<"a", "[">>}

ExcludeArgs ==
    {<<>>, <<"hammock">>, <<"symlink/", "hammock">>, <<"[">>, <<"hammock", "[">>}

\* The roots given to PosixFS::new: every entry of the world, "/" itself,
\* and paths that are not there.
Roots ==
    DOMAIN World
        \cup {<<>>, <<"missing">>, <<"build", "missing">>, <<"file", "src">>,
              <<"to_build", "src">>, <<"build", "up", "file">>}

InitCreate ==
    /\ IdleParse
    /\ IdleExpand
    /\ IdlePaths
    /\ IdleVfs
    /\ IdleBuild
    /\ IdleRpc
    /\ IdleShm
    /\ IdleDirs

CreateStrictGlobMatching ==
    /\ bpc = "init"
    /\ \E behavior \in Tokens :
           /\ args' = [behavior |-> behavior]
           /\ built' = StrictGlobMatching_create(behavior)
    /\ bpc' = "StrictGlobMatching::create"
    /\ UNCHANGED <<parseVars, expandVars, pathVars, vfsVars, rpcVars,
                 shmVars, dirVars>>

CreateConjunction ==
    /\ bpc = "init"
    /\ \E spec \in Tokens :
           /\ args' = [spec |-> spec]
           /\ built' = Conjunction_create(spec)
    /\ bpc' = "Conjunction::create"
    /\ UNCHANGED <<parseVars, expandVars, pathVars, vfsVars, rpcVars,
                 shmVars, dirVars>>

CreatePathGlobs ==
    /\ bpc = "init"
    /\ \E filespecs \in SeqsUpTo(CreateFilespecs, MaxSpecs),
          exclude \in ExcludeArgs,
          strict_match_behavior \in Strictness,
          conjunction \in Conjunctions :
           /\ args' = [include |-> filespecs, exclude |-> exclude,
                       strict_match_behavior |-> strict_match_behavior,
                       conjunction |-> conjunction]
           /\ built' = PathGlobs_create(filespecs, exclude,
                                        strict_match_behavior, conjunction)
    /\ bpc' = "PathGlobs::create"
    /\ UNCHANGED <<parseVars, expandVars, pathVars, vfsVars, rpcVars,
                 shmVars, dirVars>>

NewPosixFS ==
    /\ bpc = "init"
    /\ \E root \in Roots, ignore_patterns \in ExcludeArgs :
           /\ args' = [root |-> root, ignore_patterns |-> ignore_patterns]
           /\ built' = PosixFS_new(World, root, ignore_patterns)
    /\ bpc' = "PosixFS::new"
    /\ UNCHANGED <<parseVars, expandVars, pathVars, vfsVars, rpcVars,
                 shmVars, dirVars>>

NextCreate ==
    \/ CreateStrictGlobMatching
    \/ CreateConjunction
    \/ CreatePathGlobs
    \/ NewPosixFS

SpecCreate == InitCreate /\ [][NextCreate]_vars

----------------------------------------------------------------------------
(* VcfsInstance::expand_globs: the callers of one instance, each making    *)
(* its message, then taking the lock of the client for one exchange with   *)
(* the peer at the other end of the socket.                                *)

\* A u32 in two halves of sixteen bits.
U32(hi, lo) == [hi |-> hi, lo |-> lo]

U32Less(a, b) == a.hi < b.hi \/ (a.hi = b.hi /\ a.lo < b.lo)

\* u32 + 1, wrapping.
wrapping_add_one(c) ==
    IF c.lo + 1 < 2^16 THEN U32(c.hi, c.lo + 1)
    ELSE U32((c.hi + 1) % 2^16, 0)

\* AtomicU32::fetch_add(1, Relaxed): one read-modify-write; what it
\* returns and what the counter holds after it.
fetch_add_not_stored(c) == [previous |-> c, counter |-> c]
fetch_add(c) == [previous |-> c, counter |-> wrapping_add_one(c)]

\* Option<T>
None == <<>>
Some(v) == <<v>>

\* VcfsInstance::create_expand_globs_message; path_globs stands for the
\* globs of the caller.
create_expand_globs_message(id, path_globs) ==
    [message_id |-> Some([id |-> Some(id)]), path_globs |-> Some(path_globs)]

\* Mutex::lock returns once no other thread holds the mutex.
Mutex_lock_unguarded(holder) == TRUE
Mutex_lock(holder) == holder = 0

COMMUNICATION_ERROR == "CommunicationError"

Returned(r) == [panicked |-> FALSE, ret |-> r]
Panicked == [panicked |-> TRUE, ret |-> Ok(<<>>)]

\* VcfsClient::do_expand_globs_call on what self.expand_globs returned:
\* the transport's error, or a GlobExpansionComplete.
do_expand_globs_call_unchecked(expand_globs_message, rpc) ==
    IF ~rpc.ok THEN Returned(Err(COMMUNICATION_ERROR, rpc.arg))
    ELSE IF /\ rpc.val.message_id # None
            /\ rpc.val.message_id[1].id # None
            /\ rpc.val.status # None
    THEN IF rpc.val.status[1] = "Error"
         THEN Returned(Err(COMMUNICATION_ERROR, rpc.val.error_text))
         ELSE Returned(Ok(IF rpc.val.all_files = None THEN <<>>
                          ELSE rpc.val.all_files[1]))
    ELSE Panicked
do_expand_globs_call(expand_globs_message, rpc) ==
    IF ~rpc.ok THEN Returned(Err(COMMUNICATION_ERROR, rpc.arg))
    ELSE IF /\ rpc.val.message_id # None
            /\ rpc.val.message_id[1].id # None
            /\ rpc.val.status # None
    THEN IF rpc.val.status[1] = "Error"
         THEN Returned(Err(COMMUNICATION_ERROR, rpc.val.error_text))
         ELSE IF rpc.val.message_id[1].id[1]
                     # expand_globs_message.message_id[1].id[1]
         THEN Panicked
         ELSE Returned(Ok(IF rpc.val.all_files = None THEN <<>>
                          ELSE rpc.val.all_files[1]))
    ELSE Panicked

\* The message ids a peer may answer with: the request's, or another.
AnswerIds(message) ==
    { message.message_id[1].id[1],
      wrapping_add_one(message.message_id[1].id[1]) }

\* Every GlobExpansionComplete the peer may write in reply to a request;
\* reply_to: whose request it answers.
Responses(message) ==
    { [message_id |-> m, status |-> st, all_files |-> af, error_text |-> et,
       reply_to |-> message.path_globs[1]] :
        m \in {None, Some([id |-> None])}
                \cup {Some([id |-> Some(i)]) : i \in AnswerIds(message)},
        st \in {None, Some("Ok"), Some("Error")},
        af \in {None, Some(<<"a_marmoset">>)},
        et \in {None, Some("no such directory")} }

\* A reply as the peer of the protocol writes it: all_files with Ok,
\* error_text with Error.
WellFormed(r) ==
    /\ r.status # Some("Ok") => r.all_files = None
    /\ r.status # Some("Error") => r.error_text = None

NoMessage == [message_id |-> None, path_globs |-> None]
NoReply == Ok(<<>>)
NoReturn == Ok(<<>>)

Caller(pc, message, reply, ret) ==
    [pc |-> pc, message |-> message, reply |-> reply, ret |-> ret]

\* The instance as new() leaves it, or after 2^32 - 1 messages; no call
\* of expand_globs made yet.
InitVcfs ==
    /\ IdleParse
    /\ IdleExpand
    /\ IdlePaths
    /\ IdleVfs
    /\ IdleBuild
    /\ IdleShm
    /\ IdleDirs
    /\ message_id_counter \in {U32(0, 0), U32(2^16 - 1, 2^16 - 1)}
    /\ first_id = message_id_counter
    /\ handed = <<>>
    /\ client_lock = 0
    /\ callers = [t \in 1..MaxCallers |-> Caller("start", NoMessage, NoReply, NoReturn)]
    /\ to_server = <<>>
    /\ to_client = <<>>
    /\ socket = "up"

\* expand_globs, up to the future it returns: the message is made.
CreateMessage(t) ==
    /\ callers[t].pc = "start"
    /\ message_id_counter' = fetch_add(message_id_counter).counter
    /\ handed' = Append(handed, fetch_add(message_id_counter).previous)
    /\ callers' = [callers EXCEPT ![t] =
                      Caller("created",
                             create_expand_globs_message(
                                 fetch_add(message_id_counter).previous, t),
                             NoReply, NoReturn)]
    /\ UNCHANGED <<first_id, client_lock, to_server, to_client, socket>>
    /\ UNCHANGED <<parseVars, expandVars, pathVars, vfsVars, buildVars, shmVars,
                 dirVars>>

\* The future runs on the pool: vcfs_client.lock()
Lock(t) ==
    /\ callers[t].pc = "created"
    /\ Mutex_lock(client_lock)
    /\ client_lock' = t
    /\ callers' = [callers EXCEPT ![t].pc = "locked"]
    /\ UNCHANGED <<message_id_counter, first_id, handed, to_server, to_client, socket>>
    /\ UNCHANGED <<parseVars, expandVars, pathVars, vfsVars, buildVars, shmVars,
                 dirVars>>

\* self.expand_globs of the client: the request is written and flushed.
Send(t) ==
    /\ callers[t].pc = "locked"
    /\ socket = "up"
    /\ to_server' = Append(to_server, callers[t].message)
    /\ callers' = [callers EXCEPT ![t].pc = "sent"]
    /\ UNCHANGED <<message_id_counter, first_id, handed, client_lock, to_client, socket>>
    /\ UNCHANGED <<parseVars, expandVars, pathVars, vfsVars, buildVars, shmVars,
                 dirVars>>

\* The peer reads the request before the others and writes its reply.
ServerReply ==
    /\ socket = "up"
    /\ to_server # <<>>
    /\ \E r \in Responses(Head(to_server)) :
        /\ WellFormed(r)
        /\ to_client' = Append(to_client, r)
    /\ to_server' = Tail(to_server)
    /\ UNCHANGED <<message_id_counter, first_id, handed, client_lock, callers, socket>>
    /\ UNCHANGED <<parseVars, expandVars, pathVars, vfsVars, buildVars, shmVars,
                 dirVars>>

\* The peer goes away: what is in flight is lost.
Disconnect ==
    /\ socket = "up"
    /\ socket' = "down"
    /\ to_server' = <<>>
    /\ to_client' = <<>>
    /\ UNCHANGED <<message_id_counter, first_id, handed, client_lock, callers>>
    /\ UNCHANGED <<parseVars, expandVars, pathVars, vfsVars, buildVars, shmVars,
                 dirVars>>

\* What the call makes of what self.expand_globs returned, and the end of
\* the statement: the guard of the lock is dropped, by the return as by
\* the unwinding of a panic.  Another caller's guard is left alone.
EndOfCall(t, rpc) ==
    LET end == do_expand_globs_call(callers[t].message, rpc) IN
    /\ callers' = [callers EXCEPT ![t] =
                      Caller(IF end.panicked THEN "aborted" ELSE "returned",
                             callers[t].message, rpc, end.ret)]
    /\ client_lock' = IF client_lock = t THEN 0 ELSE client_lock

\* self.expand_globs of the client returns the reply it read.
Receive(t) ==
    /\ callers[t].pc = "sent"
    /\ to_client # <<>>
    /\ EndOfCall(t, Ok(Head(to_client)))
    /\ to_client' = Tail(to_client)
    /\ UNCHANGED <<message_id_counter, first_id, handed, to_server, socket>>
    /\ UNCHANGED <<parseVars, expandVars, pathVars, vfsVars, buildVars, shmVars,
                 dirVars>>

\* self.expand_globs of the client fails on the socket, writing or reading.
TransportError(t) ==
    /\ callers[t].pc \in {"locked", "sent"}
    /\ socket = "down"
    /\ EndOfCall(t, Err("transport", "Broken pipe"))
    /\ UNCHANGED <<message_id_counter, first_id, handed, to_server, to_client, socket>>
    /\ UNCHANGED <<parseVars, expandVars, pathVars, vfsVars, buildVars, shmVars,
                 dirVars>>

NextVcfs ==
    \/ \E t \in 1..MaxCallers : CreateMessage(t)
    \/ \E t \in 1..MaxCallers : Lock(t)
    \/ \E t \in 1..MaxCallers : Send(t)
    \/ ServerReply
    \/ Disconnect
    \/ \E t \in 1..MaxCallers : Receive(t)
    \/ \E t \in 1..MaxCallers : TransportError(t)

SpecVcfs == InitVcfs /\ [][NextVcfs]_vars

----------------------------------------------------------------------------
(* FileWithContents::from_shm_descriptor: one descriptor of a reply,       *)
(* resolved against the mapped region.                                     *)

\* i64 as usize, on 64 bits: x for x >= 0 and 2^64 + x for x < 0; kept as
\* whether 2^64 was added, and x.
as_usize(x) == [wrapped |-> x < 0, low |-> x]

\* usize <= usize
UsizeLeq(a, b) ==
    \/ ~a.wrapped /\ b.wrapped
    \/ a.wrapped = b.wrapped /\ a.low <= b.low

\* &bytes[start..end]: the index is checked, start <= end and
\* end <= bytes.len(), or the thread panics; byte k of the slice is byte
\* start + k of the region.
Slice(panicked, contents) == [panicked |-> panicked, contents |-> contents]

index_unchecked(region, start, end) ==
    IF start.wrapped \/ end.wrapped \/ end.low < start.low THEN Slice(FALSE, <<>>)
    ELSE Slice(FALSE, [k \in 1..(end.low - start.low) |->
                          IF start.low + k <= Len(region)
                          THEN region[start.low + k] ELSE 255])
index(region, start, end) ==
    IF ~UsizeLeq(start, end) THEN Slice(TRUE, <<>>)
    ELSE IF ~UsizeLeq(end, as_usize(Len(region))) THEN Slice(TRUE, <<>>)
    ELSE Slice(FALSE, [k \in 1..(end.low - start.low) |-> region[start.low + k]])

FileWithContents(path, contents) ==
    [panicked |-> FALSE, path |-> path, contents |-> contents]
NoFileWithContents == [panicked |-> TRUE, path |-> <<>>, contents |-> <<>>]

\* FileWithContents::from_shm_descriptor
from_shm_descriptor(region, descriptor) ==
    IF /\ descriptor.path # None
       /\ descriptor.contents_start # None
       /\ descriptor.contents_end # None
    THEN IF ~(descriptor.contents_end[1] >= descriptor.contents_start[1])
         THEN NoFileWithContents
         ELSE LET contents == index(region,
                                    as_usize(descriptor.contents_start[1]),
                                    as_usize(descriptor.contents_end[1]))
              IN  IF contents.panicked THEN NoFileWithContents
                  ELSE FileWithContents(descriptor.path[1], contents.contents)
    ELSE NoFileWithContents

\* The mapped regions: byte k of a region, from 0, is k + 1.
Regions == {[k \in 1..n |-> k] : n \in 0..MaxRegion}

\* The offsets a peer may send: none, or from below 0 to past the region.
Offsets == {None} \cup {Some(x) : x \in (0 - 2)..(MaxRegion + 1)}

Descriptors ==
    [path : {None, Some(<<"a_marmoset">>)}, contents_start : Offsets,
     contents_end : Offsets]

InitShm ==
    /\ IdleParse
    /\ IdleExpand
    /\ IdlePaths
    /\ IdleVfs
    /\ IdleBuild
    /\ IdleRpc
    /\ IdleDirs
    /\ bytes \in Regions
    /\ fd \in Descriptors
    /\ file = <<>>
    /\ shm_pc = "init"

\* expand_globs, for a descriptor of the reply:
\* shm::FileWithContents::from_shm_descriptor(&*shm_handle, &fd)
FromShmDescriptor ==
    /\ shm_pc = "init"
    /\ file' = from_shm_descriptor(bytes, fd)
    /\ shm_pc' = "called"
    /\ UNCHANGED <<bytes, fd>>
    /\ UNCHANGED <<parseVars, expandVars, pathVars, vfsVars, buildVars, rpcVars,
                 dirVars>>

NextShm == FromShmDescriptor

SpecShm == InitShm /\ [][NextShm]_vars

----------------------------------------------------------------------------
(* safe_create_dir_all_ioerror, called by several threads or processes at  *)
(* once.  Every fs::create_dir is one step; between two steps of a call    *)
(* the others may take theirs.                                             *)

\* fs::create_dir (mkdir): how it ends on the directories that exist.
create_dir(existing, path) ==
    IF path \in existing THEN "AlreadyExists"
    ELSE IF Parent(path) \notin existing THEN "NotFound"
    ELSE "Ok"

\* The match on the first create_dir of a call: return Ok(()), go on to
\* the parent, or return the error.
first_match_as_create_dir(kind) ==
    CASE kind = "Ok" -> "return_ok"
      [] kind = "NotFound" -> "go_on"
      [] OTHER -> "return_err"
first_match(kind) ==
    CASE kind = "Ok" -> "return_ok"
      [] kind = "AlreadyExists" -> "return_ok"
      [] kind = "NotFound" -> "go_on"
      [] OTHER -> "return_err"

\* The match on the create_dir that follows the call for the parent.
second_match(kind) ==
    CASE kind = "Ok" -> "return_ok"
      [] kind = "AlreadyExists" -> "return_ok"
      [] OTHER -> "return_err"

\* A call under way: the path it was made for; how many components of it
\* the innermost call of the recursion is about; where that call stands
\* ("first" or "second" create_dir, or the outermost has "returned"); what
\* was returned; and how each create_dir of the call ended.
Worker(path, level, pc, ret, met) ==
    [path |-> path, level |-> level, pc |-> pc, ret |-> ret, met |-> met]

\* The call about `level` components returns Ok(()): to its caller, which
\* goes on to its second create_dir, or out of the outermost call.
ReturnOk(w, kind) ==
    IF w.level = Len(w.path)
    THEN Worker(w.path, w.level, "returned", IoOk(<<>>), Append(w.met, kind))
    ELSE Worker(w.path, w.level + 1, "second", w.ret, Append(w.met, kind))

\* The call returns the error, and try! hands it out of every caller.
ReturnErr(w, kind) ==
    Worker(w.path, w.level, "returned", IoErr(kind, "create_dir"), Append(w.met, kind))

\* match path.parent(): the call for the parent, or Ok(()) at the root.
GoOn(w, kind) ==
    IF w.level = 0
    THEN ReturnOk(w, kind)
    ELSE Worker(w.path, w.level - 1, "first", w.ret, Append(w.met, kind))

After(w, kind, what) ==
    CASE what = "return_ok" -> ReturnOk(w, kind)
      [] what = "go_on" -> GoOn(w, kind)
      [] OTHER -> ReturnErr(w, kind)

\* The paths the calls are made for: a chain of directories, and a
\* sibling of each of them.
RECURSIVE Chain_a(_)
Chain_a(n) == IF n = 0 THEN <<>> ELSE Append(Chain_a(n - 1), "a")

Targets ==
    {Chain_a(n) : n \in 1..MaxDepth}
        \cup {Append(Chain_a(n - 1), "b") : n \in 1..MaxDepth}

InitMkdir ==
    /\ IdleParse
    /\ IdleExpand
    /\ IdlePaths
    /\ IdleVfs
    /\ IdleBuild
    /\ IdleRpc
    /\ IdleShm
    /\ dirs \in {{<<>>}, {<<>>, <<"a">>}}
    /\ workers \in [1..MaxThreads ->
                      {Worker(p, Len(p), "first", IoOk(<<>>), <<>>) : p \in Targets}]

\* The first create_dir of a call of safe_create_dir_all_ioerror.
FirstCreateDir(t) ==
    LET w == workers[t]
        path == SubSeq(w.path, 1, w.level)
        kind == create_dir(dirs, path)
    IN  /\ w.pc = "first"
        /\ dirs' = IF kind = "Ok" THEN dirs \cup {path} ELSE dirs
        /\ workers' = [workers EXCEPT ![t] = After(w, kind, first_match(kind))]
        /\ UNCHANGED <<parseVars, expandVars, pathVars, vfsVars, buildVars,
                     rpcVars, shmVars>>

\* The create_dir of a call after its call for the parent returned Ok.
SecondCreateDir(t) ==
    LET w == workers[t]
        path == SubSeq(w.path, 1, w.level)
        kind == create_dir(dirs, path)
    IN  /\ w.pc = "second"
        /\ dirs' = IF kind = "Ok" THEN dirs \cup {path} ELSE dirs
        /\ workers' = [workers EXCEPT ![t] = After(w, kind, second_match(kind))]
        /\ UNCHANGED <<parseVars, expandVars, pathVars, vfsVars, buildVars,
                     rpcVars, shmVars>>

NextMkdir ==
    \/ \E t \in 1..MaxThreads : FirstCreateDir(t)
    \/ \E t \in 1..MaxThreads : SecondCreateDir(t)

SpecMkdir == InitMkdir /\ [][NextMkdir]_vars

\* Every caller is a thread or a process the system keeps scheduling, and
\* a create_dir returns.
SpecMkdirLive ==
    /\ SpecMkdir
    /\ \A t \in 1..MaxThreads : WF_vars(FirstCreateDir(t) \/ SecondCreateDir(t))

----------------------------------------------------------------------------
(* Properties of the parser.                                               *)

\* Two Results agree: the same fragments, or the same kind of error.
SameOutcome(x, y) ==
    /\ x.ok = y.ok
    /\ x.ok => x.val = y.val
    /\ ~x.ok => x.err = y.err

\* The filespec with every `**` segment removed whose nearest preceding
\* segment, "." and empty segments aside, is a `**` too.
RECURSIVE CollapseFrom(_, _, _)
CollapseFrom(segs, i, prevStar) ==
    IF i > Len(segs) THEN <<>>
    ELSE IF segs[i] = "." \/ segs[i] = ""
    THEN <<segs[i]>> \o CollapseFrom(segs, i + 1, prevStar)
    ELSE IF segs[i] = "**" /\ prevStar THEN CollapseFrom(segs, i + 1, TRUE)
    ELSE <<segs[i]>> \o CollapseFrom(segs, i + 1, segs[i] = "**")

Collapse(segs) == CollapseFrom(segs, 1, FALSE)

Parsed(m) == mode = m /\ ppc = "parsed"

\* C1: parsing a filespec gives the same fragments (or the same error) as
\* parsing it with every run of `**` components collapsed to one `**`.
C1_RepeatedDoubleStarCollapsed ==
    Parsed("create") =>
        SameOutcome(parsed, create(<<Collapse(include[1])>>))

C1_Witness ==
    /\ Parsed("create")
    /\ include[1] = <<"a", "**", "**", "a">>
    /\ parsed.ok
    /\ parsed.val = create(<<<<"a", "**", "a">>>>).val

\* The first component that PathGlob::parse keeps, "" when there is none
\* or when the filespec is absolute.
RECURSIVE FirstKept(_, _)
FirstKept(segs, i) ==
    IF i > Len(segs) \/ HasRoot(segs) THEN ""
    ELSE IF segs[i] = "." \/ segs[i] = "" THEN FirstKept(segs, i + 1)
    ELSE segs[i]

\* The first part that is not a `**`, "" when there is none.
RECURSIVE FirstAfterStars(_)
FirstAfterStars(ps) ==
    IF ps = <<>> THEN ""
    ELSE IF ps[1] = "**" THEN FirstAfterStars(Tail(ps))
    ELSE ps[1]

\* C2: a `..` that would pop above the root is rejected with the
\* root-escape error wherever it stands: at the head of the parts, or
\* behind a `**` (which may match no directory at all); it never becomes
\* the name a fragment matches.
C2_RootEscapeRejectedEverywhere ==
    (Parsed("parse_globs") /\ canonical_dir = <<>>
        /\ FirstAfterStars(parts) = "..")
    => (~parsed.ok /\ parsed.err = OUTSIDE_ROOT)

\* C3: parse_globs on parts that begin with `..`, at the root, is the
\* root-escape error; a filespec whose first kept component is `..` is
\* rejected by PathGlob::create.
C3_LeadingParentAtRootRejected ==
    /\ (Parsed("parse_globs") /\ canonical_dir = <<>>
            /\ parts # <<>> /\ parts[1] = "..")
       => (~parsed.ok /\ parsed.err = OUTSIDE_ROOT /\ parsed.arg = parts)
    /\ (Parsed("create") /\ FirstKept(include[1], 1) = "..")
       => (~parsed.ok /\ parsed.err \in {OUTSIDE_ROOT, BAD_GLOB})

C3_Witness ==
    /\ Parsed("parse_globs")
    /\ canonical_dir = <<>>
    /\ parts = <<"..", "a">>
    /\ ~parsed.ok

\* The number of `..` at the head of the parts.
RECURSIVE LeadingParents(_)
LeadingParents(ps) ==
    IF ps = <<>> \/ ps[1] # ".." THEN 0
    ELSE 1 + LeadingParents(Tail(ps))

Dots(k) == [i \in 1..k |-> ".."]

\* C4: parse_globs on parts that begin with `..`, below the root, is
\* parse_globs of the remaining parts one directory up, with a literal `..`
\* appended to the symbolic path: every fragment's canonical_dir is the
\* given one less one segment per leading `..` and holds no `..`; its
\* symbolic_path is the given one followed by those `..`.
C4_ParentPopsCanonicalKeepsSymbolic ==
    (Parsed("parse_globs") /\ canonical_dir # <<>>
        /\ parts # <<>> /\ parts[1] = "..")
    => LET k == LeadingParents(parts)
           up == SubSeq(canonical_dir, 1, Len(canonical_dir) - k)
       IN  /\ parsed = parse_globs(Pop(canonical_dir),
                                   Append(symbolic_path, ".."), Tail(parts))
           /\ parsed.ok <=> k <= Len(canonical_dir)
           /\ parsed.ok =>
                 /\ Len(parsed.val) > 0 <=> k < Len(parts)
                 /\ \A i \in 1..Len(parsed.val) :
                       /\ parsed.val[i].canonical_dir = up
                       /\ \A j \in 1..Len(up) : up[j] # ".."
                       /\ parsed.val[i].symbolic_path = symbolic_path \o Dots(k)

C4_Witness ==
    /\ Parsed("parse_globs")
    /\ canonical_dir = <<"a", "b">>
    /\ symbolic_path = <<"l">>
    /\ parts = <<"..", "a">>
    /\ parsed = Ok(<<wildcard(<<"a">>, <<"l", "..">>, "a")>>)

\* C5: a filespec with a root component is rejected as absolute, whatever
\* else it holds.
C5_AbsoluteRejected ==
    (Parsed("create") /\ HasRoot(include[1]))
    => parsed = Err(ABSOLUTE, include[1])

C5_Witness ==
    /\ Parsed("create")
    /\ include[1] = <<"", "..", "[">>
    /\ parsed = Err(ABSOLUTE, include[1])

\* C21: for parts that begin with `**` and go on, parse_globs returns two
\* fragments in the directory it was given: the DirWildcard on `*` whose
\* remainder is the whole part sequence, and the fragment that parsing the
\* parts behind the `**` alone, in that directory, produces (the `**`
\* matched no directory), whatever the next part is, `..` included.
C21_ZeroLevelIsParseOfTheRest ==
    (Parsed("parse_globs") /\ Len(parts) >= 2 /\ parts[1] = DOUBLE_STAR)
    => /\ parsed.ok
       /\ Len(parsed.val) = 2
       /\ parsed.val[1]
            = dir_wildcard(canonical_dir, symbolic_path, SINGLE_STAR_GLOB, parts)
       /\ parse_globs(canonical_dir, symbolic_path, Tail(parts))
            = Ok(<<parsed.val[2]>>)

\* C22: a lone `**` is the DirWildcard on `*` that keeps the `**`, then the
\* Wildcard on `*`, both in the directory and under the symbolic path that
\* were given; no parts at all are no fragments and no error.
C22_LoneDoubleStarAndEmptyParts ==
    /\ (Parsed("parse_globs") /\ parts = <<DOUBLE_STAR>>)
       => parsed = Ok(<<dir_wildcard(canonical_dir, symbolic_path,
                                     SINGLE_STAR_GLOB, <<DOUBLE_STAR>>),
                        wildcard(canonical_dir, symbolic_path,
                                 SINGLE_STAR_GLOB)>>)
    /\ (Parsed("parse_globs") /\ parts = <<>>) => parsed = Ok(<<>>)
    /\ (Parsed("create") /\ include[1] \in {<<"">>, <<".">>})
       => parsed = Ok(<<>>)

C22_Witness ==
    /\ Parsed("parse_globs")
    /\ canonical_dir = <<"a", "b">>
    /\ symbolic_path = <<"l">>
    /\ parts = <<DOUBLE_STAR>>
    /\ Len(parsed.val) = 2
    /\ parsed.val[2] = wildcard(<<"a", "b">>, <<"l">>, SINGLE_STAR_GLOB)

----------------------------------------------------------------------------
(* Properties of the expansion.                                            *)

\* The request as PathGlobs::create builds it from its filespecs.
PathGlobsOf(req) ==
    [include |-> OkOrEmpty(spread_filespecs(req.include)), exclude |-> req.exclude,
     strict_match_behavior |-> req.strict_match_behavior,
     conjunction |-> req.conjunction]

\* The whole request expanded in one piece, no future overtaking another.
Sequential(req) == Outcome(expand(FS(fsys), PathGlobsOf(req), link_table))

IsPrefix(d, p) == Len(d) <= Len(p) /\ SubSeq(p, 1, Len(d)) = d

\* What lies below a directory, at any depth.
Below(f, dir) == {p \in DOMAIN f.tree : Len(p) > Len(dir) /\ IsPrefix(dir, p)}

PathsOf(path_stats) == {path_stats[k].path : k \in 1..Len(path_stats)}

\* "dir/**" for "dir/**/*" and the reverse; any other filespec is left.
WithStar(filespec) ==
    IF Len(filespec) = 2 /\ filespec[2] = "**" THEN Append(filespec, "*")
    ELSE IF Len(filespec) = 3 /\ filespec[2] = "**" /\ filespec[3] = "*"
    THEN SubSeq(filespec, 1, 2)
    ELSE filespec

IsRecursive(inc) == Len(inc) = 1 /\ WithStar(inc[1]) # inc[1]

Twin(req) == [req EXCEPT !.include = <<WithStar(req.include[1])>>]

Ended == epc \in {"done", "failed", "rejected"}

\* C6: a request for "dir/**" ends as the request for "dir/**/*" on the
\* same tree does, and the reverse; where nothing is excluded and no link
\* lies below dir, with exactly the entries below dir, its children and
\* theirs.
C6_TrailingDoubleStarAsDoubleStarStar ==
    (Ended /\ IsRecursive(request.include)) =>
        /\ outcome = Sequential(Twin(request))
        /\ (/\ request.exclude = {}
            /\ \A p \in Below(FS(fsys), <<request.include[1][1]>>) :
                   FS(fsys).tree[p].kind # "link")
           => /\ epc = "done"
              /\ PathsOf(outcome.val) = Below(FS(fsys), <<request.include[1][1]>>)

\* "subdir/**" on the tree with a directory in subdir: the children of
\* subdir, the directory among them, and what the directory holds.
C6_Witness ==
    /\ epc = "done"
    /\ fsys = "roland"
    /\ request.include = << <<"subdir", "**">> >>
    /\ request.exclude = {}
    /\ PathsOf(outcome.val) = { <<"subdir", "hammock">>,
                                <<"subdir", "hammock", "napping_marmoset">>,
                                <<"subdir", "roland1">>, <<"subdir", "roland2">> }

StrictlySorted(path_stats) ==
    \A k \in 1..(Len(path_stats) - 1) :
        PathLess(path_stats[k].path, path_stats[k + 1].path)

\* C7: the result of an expansion is sorted by symbolic path, no path
\* twice, and is the one sequence of the request on the tree, in whatever
\* order the futures of its directories completed; an expansion fails only
\* where the request, expanded in one piece, fails.
C7_SortedDedupedWhateverTheOrder ==
    /\ epc = "done" => /\ StrictlySorted(outcome.val)
                       /\ outcome = Sequential(request)
    /\ epc = "failed" => ~Sequential(request).ok

\* The futures delivered out of order, and one path more than once.
C7_Witness ==
    /\ epc = "done"
    /\ Len(outcome.val) >= 3
    /\ Len(result) > Len(outcome.val)
    /\ \E k \in 1..(Len(result) - 1) : PathLess(result[k + 1].path, result[k].path)

\* The entry at a path is one the patterns name: by its own name, and as
\* a directory where the pattern asks for one.
Excluded(f, patterns, p) ==
    /\ p \in DOMAIN f.tree
    /\ \E pat \in patterns :
        /\ pat.name = Last(p)
        /\ pat.dir_only => f.tree[p].kind = "dir"

ExcludedDir(f, patterns, p) ==
    Excluded(f, patterns, p) /\ f.tree[p].kind = "dir"

\* The path is an excluded directory, or lies below one.
InExcludedDir(f, patterns, p) ==
    \E k \in 1..Len(p) : ExcludedDir(f, patterns, SubSeq(p, 1, k))

\* The path with each ".." taken against the segment before it.
RECURSIVE Lexical(_, _)
Lexical(p, acc) ==
    IF p = <<>> THEN acc
    ELSE IF Head(p) = ".." /\ acc # <<>> THEN Lexical(Tail(p), Parent(acc))
    ELSE Lexical(Tail(p), Append(acc, Head(p)))

\* A link outside the excluded directories whose target lies in one.
LinksInto(f, patterns) ==
    {l \in DOMAIN f.tree :
        /\ f.tree[l].kind = "link"
        /\ ~InExcludedDir(f, patterns, l)
        /\ ~Excluded(f, patterns, l)
        /\ InExcludedDir(f, patterns, Lexical(Parent(l) \o f.tree[l].target, <<>>))}

Alone(req, i) ==
    [include |-> <<req.include[i]>>, exclude |-> req.exclude,
     strict_match_behavior |-> "Ignore", conjunction |-> "And"]

\* The include entries that match nothing on the tree.
NoMatch(req) ==
    {i \in 1..Len(req.include) : Sequential(Alone(req, i)).val = <<>>}

\* The condition of the policy: an entry without a match under And, no
\* entry with a match under Or.
Unsatisfied(req, none) ==
    \/ req.conjunction = "And" /\ none # {}
    \/ req.conjunction = "Or" /\ none = 1..Len(req.include)

InputsOf(req, none) == {req.include[i] : i \in none}

PolicyKept(req, none) ==
    /\ (epc = "failed" /\ outcome.err = UNMATCHED)
           => /\ req.strict_match_behavior = "Error"
              /\ Unsatisfied(req, none)
              /\ unmatched = InputsOf(req, none)
    /\ epc = "done"
           => /\ ~(req.strict_match_behavior = "Error" /\ Unsatisfied(req, none))
              /\ unmatched # {}
                     <=> (req.strict_match_behavior = "Warn" /\ Unsatisfied(req, none))
              /\ unmatched # {} => unmatched = InputsOf(req, none)

\* C12: a request fails for its unmatched globs exactly under Error, when
\* an entry matched nothing (And) or every entry matched nothing (Or), and
\* names the entries that did not match; under Warn the same is reported
\* and the request succeeds; under Ignore nothing is checked.
C12_UnmatchedFailsOnlyUnderError ==
    /\ \A b \in Strictness :
           /\ should_check_glob_matches(b) = (b # "Ignore")
           /\ should_throw_on_error(b) = (b = "Error")
    /\ PolicyKept(request, NoMatch(request))

\* Of two entries one matched and one did not, under And and Error.
C12_Witness ==
    /\ epc = "failed"
    /\ outcome.err = UNMATCHED
    /\ request.conjunction = "And"
    /\ matched = {1}
    /\ unmatched = { <<"nothing", "*">> }

----------------------------------------------------------------------------
(* Properties of path_stats and of the canonicalizer.                      *)

\* The links of a tree: a chain that reads more links than there are
\* reads one of them twice.
Links(f) == {p \in DOMAIN f.tree : f.tree[p].kind = "link"}

\* The path lies below a directory its owner may not search.
Locked(f, p) ==
    \E k \in 1..(Len(p) - 1) :
        /\ SubSeq(p, 1, k) \in DOMAIN f.tree
        /\ f.tree[SubSeq(p, 1, k)].mode = 0

\* The chain of a path followed link by link, each target taken against
\* the directory of its link: where it ends (at nothing, at a Dir or File,
\* at what cannot be read or is none of the three types, at an absolute
\* target, in a cycle), and after how many links.
Chain(kind, at, hops) == [kind |-> kind, at |-> at, hops |-> hops]

RECURSIVE Walk(_, _, _, _)
Walk(f, p, fuel, hops) ==
    IF Locked(f, p) THEN Chain("denied", p, hops)
    ELSE IF p \notin DOMAIN f.tree THEN Chain("missing", p, hops)
    ELSE IF f.tree[p].kind = "other" THEN Chain("special", p, hops)
    ELSE IF f.tree[p].kind # "link" THEN Chain("real", p, hops)
    ELSE IF f.tree[p].abs THEN Chain("absolute", p, hops)
    ELSE IF fuel = 0 THEN Chain("cycle", p, hops)
    ELSE Walk(f, Lexical(Parent(p) \o f.tree[p].target, <<>>), fuel - 1, hops + 1)

ChainOf(f, p) == Walk(f, p, Cardinality(Links(f)), 0)

\* The Dir or File a chain ends at, under the path that was asked about.
RealStat(f, p) ==
    IF f.tree[p].kind = "dir" THEN StatDir(p)
    ELSE StatFile(p, (f.tree[p].mode \div 64) % 2 = 1)

Resolved(f, p) == PathStatOf(p, RealStat(f, ChainOf(f, p).at))

WasLink(i) == slots[i].link # NoStat

\* C9: a canonicalize that was started has ended; on a chain of links
\* that closes a cycle with the cycle error, after no more reads of a link
\* than the bound; on a chain of no more links than the bound that ends at
\* a Dir or File, with that Dir or File.
C9_CanonicalizeEndsCycleIsError ==
    \A i \in 1..Len(slots) :
        (WasLink(i) /\ Finished(i)) =>
            /\ ChainOf(FS(fsys), paths[i]).kind = "cycle"
                   => /\ slots[i].st = "error"
                      /\ slots[i].err = CYCLE
                      /\ slots[i].hops <= MAX_LINK_DEPTH
            /\ (/\ ChainOf(FS(fsys), paths[i]).kind = "real"
                /\ ChainOf(FS(fsys), paths[i]).hops <= MAX_LINK_DEPTH)
                   => /\ slots[i].st = "ready"
                      /\ slots[i].val = <<Resolved(FS(fsys), paths[i])>>
                      /\ slots[i].hops = ChainOf(FS(fsys), paths[i]).hops

\* Two links that point at each other, canonicalized: the cycle error
\* after as many reads as the bound; beside them a chain of that length,
\* resolved.
C9_Witness ==
    /\ fsys = "chain"
    /\ paths = << <<"ping">>, <<"chain3">> >>
    /\ spc = "running"
    /\ slots[1].st = "error" /\ slots[1].err = CYCLE
    /\ slots[1].hops = MAX_LINK_DEPTH
    /\ slots[2].st = "ready"
    /\ slots[2].val = <<PathStatOf(<<"chain3">>, StatFile(<<"a_marmoset">>, FALSE))>>

\* What path_stats owes for one path: None where nothing is at the path
\* or its chain of links ends at nothing, else the Dir or File at the end.
Expected(f, p) ==
    IF ChainOf(f, p).kind = "missing" THEN <<>> ELSE <<Resolved(f, p)>>

Resolvable(f, p) ==
    \/ ChainOf(f, p).kind = "missing"
    \/ ChainOf(f, p).kind = "real" /\ ChainOf(f, p).hops <= MAX_LINK_DEPTH

\* C10: path_stats returns one result for each path, at the place of the
\* path, in whatever order the futures completed: None for a path that is
\* not there and for a link to nothing; and neither fails the batch.
C10_OneResultPerPathInOrder ==
    /\ spc = "done" =>
        /\ Len(batch.val) = Len(paths)
        /\ \A i \in 1..Len(paths) : batch.val[i] = Expected(FS(fsys), paths[i])
    /\ spc = "failed" =>
        \E i \in 1..Len(paths) : ~Resolvable(FS(fsys), paths[i])

\* The future of the second path completed first; the first path is a
\* link to nothing, the second a link to a directory.
C10_Witness ==
    /\ spc = "done"
    /\ fsys = "marmosets"
    /\ paths = << <<"symlink_to_nothing">>, <<"dir_symlink">> >>
    /\ completed = <<2, 1>>
    /\ batch.val = << <<>>, <<PathStatOf(<<"dir_symlink">>, StatDir(<<"dir">>))>> >>

\* A path of the tree with no link on it: a Dir or File, in directories.
SymlinkFree(f, p) ==
    \A k \in 1..Len(p) :
        /\ SubSeq(p, 1, k) \in DOMAIN f.tree
        /\ f.tree[SubSeq(p, 1, k)].kind # "link"
        /\ k < Len(p) => f.tree[SubSeq(p, 1, k)].kind = "dir"

\* The PathStat is of the path asked about, and its stat the Dir or File
\* that is at the stat's own path, no link on the way.
Canonical(f, p, ps) ==
    /\ ps.path = p
    /\ ps.kind \in {"Dir", "File"}
    /\ ps.stat.kind = ps.kind
    /\ SymlinkFree(f, ps.stat.path)
    /\ f.tree[ps.stat.path].kind = (IF ps.kind = "Dir" THEN "dir" ELSE "file")
    /\ (p \in DOMAIN f.tree /\ f.tree[p].kind # "link") => ps.stat.path = p
    /\ (p \in DOMAIN f.tree /\ f.tree[p].kind = "link")
           => ps.stat.path = ChainOf(f, p).at

\* C11: every PathStat that path_stats returns has the path asked about as
\* its path and a Dir or File free of links as its stat, never a Link: the
\* end of the chain for a link, the path itself for a Dir or File.
C11_PathStatSymbolicPathCanonicalStat ==
    /\ \A i \in 1..Len(slots) :
           (slots[i].st = "ready" /\ slots[i].val # <<>>)
               => Canonical(FS(fsys), paths[i], slots[i].val[1])
    /\ spc = "done" =>
           \A i \in 1..Len(batch.val) :
               batch.val[i] # <<>> => Canonical(FS(fsys), paths[i], batch.val[i][1])

\* A link in a directory whose chain passes through "..", beside a Dir.
C11_Witness ==
    /\ spc = "done"
    /\ fsys = "marmosets"
    /\ paths = << <<"dir", "recursive_symlink">>, <<"dir">> >>
    /\ batch.val = << <<PathStatOf(<<"dir", "recursive_symlink">>,
                                   StatFile(<<"executable_file">>, TRUE))>>,
                      <<PathStatOf(<<"dir">>, StatDir(<<"dir">>))>> >>

\* The path names nothing, under directories that can be searched.
Missing(f, p) == p \notin DOMAIN f.tree /\ ~Locked(f, p)

\* The failure the tree holds for the path, by what is at the path: no
\* permission, a device node, a link with an absolute target.
Raised(f, p) ==
    IF Locked(f, p) THEN [kind |-> "PermissionDenied", msg |-> "Permission denied"]
    ELSE IF p \notin DOMAIN f.tree THEN NoError
    ELSE IF f.tree[p].kind = "other"
    THEN [kind |-> "InvalidData", msg |-> "Expected File, Dir or Link"]
    ELSE IF f.tree[p].kind = "link" /\ f.tree[p].abs
    THEN [kind |-> "InvalidData", msg |-> "Absolute symlink"]
    ELSE NoError

\* C23: in path_stats a path that is not found is None, for that path
\* alone; a path whose stat or whose canonicalization fails in any other
\* way (no permission, an entry that is no file, directory or link, a
\* link with an absolute target) fails its future with that error, and
\* the batch then never completes with values: it fails with the error of
\* one of the failed futures.
C23_OnlyNotFoundIsNone ==
    /\ \A i \in 1..Len(slots) :
           Finished(i) =>
               /\ Missing(FS(fsys), paths[i])
                      => (slots[i].st = "ready" /\ slots[i].val = <<>>)
               /\ Raised(FS(fsys), paths[i]) # NoError
                      => /\ slots[i].st = "error"
                         /\ slots[i].err = Raised(FS(fsys), paths[i])
    /\ spc = "done" =>
           /\ batch.ok
           /\ Len(batch.val) = Len(paths)
           /\ \A i \in 1..Len(paths) :
                  /\ Raised(FS(fsys), paths[i]) = NoError
                  /\ slots[i].st = "ready"
                  /\ Missing(FS(fsys), paths[i]) => batch.val[i] = <<>>
                  /\ (paths[i] \in DOMAIN FS(fsys).tree
                          /\ FS(fsys).tree[paths[i]].kind \in {"dir", "file"})
                         => Len(batch.val[i]) = 1
    /\ spc = "failed" =>
           /\ ~batch.ok
           /\ batch.val = <<>>
           /\ \E i \in 1..Len(paths) :
                  slots[i].st = "error" /\ batch.err = slots[i].err

\* A path that is not found, resolved to None, beside a path below a
\* locked directory: the batch fails with the permission error.
C23_Witness ==
    /\ spc = "failed"
    /\ fsys = "vault"
    /\ paths = << <<"doesnotexist">>, <<"locked", "feed">> >>
    /\ slots[1].st = "ready" /\ slots[1].val = <<>>
    /\ batch.err = [kind |-> "PermissionDenied", msg |-> "Permission denied"]

----------------------------------------------------------------------------
(* Properties of the calls on a PosixFS.                                   *)

IsDirectory(f, dir) ==
    dir = <<>> \/ (dir \in DOMAIN f.tree /\ f.tree[dir].kind = "dir")

\* The entries of dir that are directories, regular files or symlinks.
Typed(f, dir) ==
    {c \in Children(f, dir) : f.tree[c].kind \in {"dir", "file", "link"}}

TagOf(kind) ==
    CASE kind = "dir" -> "Dir" [] kind = "file" -> "File" [] kind = "link" -> "Link"

\* C13: scandir of a directory returns one Stat per entry, ascending by
\* path, each tagged Dir, File or Link by the entry's own type (a link
\* is a Link, whatever it points to), each path the directory's path
\* joined with the entry's name; an empty directory gives the empty
\* listing and a missing directory an error.
C13_ScandirOneSortedStatPerEntry ==
    vfs_op = "scandir" =>
        LET f == FS(fsys)
            entries == Children(f, vfs_path)
        IN  /\ (IsDirectory(f, vfs_path) /\ Typed(f, vfs_path) = entries) =>
                   /\ vfs_ret.ok
                   /\ Len(vfs_ret.val) = Cardinality(entries)
                   /\ StrictlySorted(vfs_ret.val)
                   /\ \A c \in entries :
                          \E i \in 1..Len(vfs_ret.val) :
                              /\ vfs_ret.val[i].path = c
                              /\ vfs_ret.val[i].kind = TagOf(f.tree[c].kind)
                   /\ \A i \in 1..Len(vfs_ret.val) :
                          /\ Len(vfs_ret.val[i].path) = Len(vfs_path) + 1
                          /\ Parent(vfs_ret.val[i].path) = vfs_path
                   /\ entries = {} => vfs_ret.val = <<>>
            /\ (vfs_path # <<>> /\ vfs_path \notin DOMAIN f.tree) => ~vfs_ret.ok

\* The listing of the test scandir: two files, a directory and a link
\* whose target is a file, read from the directory in another order.
C13_Witness ==
    /\ vfs_op = "scandir"
    /\ fsys = "enclosure"
    /\ vfs_path = <<"enclosure">>
    /\ vfs_ret =
           IoOk(<< StatFile(<<"enclosure", "a_marmoset">>, FALSE),
                   StatFile(<<"enclosure", "feed">>, TRUE),
                   StatDir(<<"enclosure", "hammock">>),
                   StatLink(<<"enclosure", "remarkably_similar_marmoset">>) >>)

\* C14: an entry that is neither a directory, a regular file nor a symlink
\* makes stat fail with a data error and makes scandir of its directory
\* fail as a whole: a listing that scandir returns has every entry of the
\* directory, none dropped.
C14_OtherEntryFailsStatAndScandir ==
    LET f == FS(fsys)
        entries == Children(f, vfs_path)
    IN  /\ (vfs_op = "stat" /\ vfs_path \in DOMAIN f.tree
                /\ f.tree[vfs_path].kind \notin {"dir", "file", "link"})
               => (~vfs_ret.ok /\ vfs_ret.kind = "InvalidData")
        /\ (vfs_op = "scandir" /\ IsDirectory(f, vfs_path)
                /\ Typed(f, vfs_path) # entries)
               => (~vfs_ret.ok /\ vfs_ret.kind = "InvalidData")
        /\ (vfs_op = "scandir" /\ vfs_ret.ok)
               => {vfs_ret.val[i].path : i \in 1..Len(vfs_ret.val)} = entries

\* A directory with a regular file and a device node: no listing at all.
C14_Witness ==
    /\ vfs_op = "scandir"
    /\ fsys = "zoo"
    /\ vfs_path = <<"dev">>
    /\ Typed(FS(fsys), vfs_path) = {<<"dev", "a_marmoset">>}
    /\ vfs_ret = IoErr("InvalidData", "Expected File, Dir or Link")

IsLink(f, p) == p \in DOMAIN f.tree /\ f.tree[p].kind = "link"

\* read_link of a link: a data error for an absolute target, and the
\* link's parent joined with the target for a relative one.
ReadLinkOfLink ==
    LET f == FS(fsys) IN
    (vfs_op = "read_link" /\ IsLink(f, vfs_path)) =>
        IF f.tree[vfs_path].abs
        THEN ~vfs_ret.ok /\ vfs_ret.kind = "InvalidData"
        ELSE /\ vfs_ret.ok
             /\ vfs_ret.val = Parent(vfs_path) \o f.tree[vfs_path].target
             /\ ~HasRoot(vfs_ret.val)

\* C15 as stated: read_link fails with a data error for an absolute
\* target, returns the link's parent joined with a relative target, and
\* fails with a data error on a link path that has no parent.
C15_ReadLinkNoParentIsDataError ==
    /\ ReadLinkOfLink
    /\ (vfs_op = "read_link" /\ vfs_path = <<>>)
           => (~vfs_ret.ok /\ vfs_ret.kind = "InvalidData")

\* C15, amended: read_link fails with a data error for an absolute target
\* and returns the link's parent joined with a relative target; the one
\* path with no parent is the root, for which the system's readlink fails
\* first, with an invalid-argument error: no call ends in the data error
\* of a link without a parent.
C15_ReadLinkNoParentIsInvalidInput ==
    /\ ReadLinkOfLink
    /\ (vfs_op = "read_link" /\ vfs_path = <<>>)
           => (~vfs_ret.ok /\ vfs_ret.kind = "InvalidInput")
    /\ (vfs_op = "read_link" /\ ~vfs_ret.ok)
           => vfs_ret.msg # "Symlink without a parent?"

\* read_link of the Link with the empty path, on a tree that has links
\* with relative targets.
C15_Witness ==
    /\ vfs_op = "read_link"
    /\ fsys = "marmosets"
    /\ vfs_path = <<>>
    /\ read_link(FS(fsys), <<"dir", "recursive_symlink">>)
           = IoOk(<<"dir", "..", "symlink">>)
    /\ vfs_ret = IoErr("InvalidInput", "Invalid argument")

\* The Stats a call of stat or scandir returned.
Reported ==
    IF ~vfs_ret.ok THEN {}
    ELSE IF vfs_op = "stat" THEN {vfs_ret.val}
    ELSE IF vfs_op = "scandir"
    THEN {vfs_ret.val[i] : i \in 1..Len(vfs_ret.val)}
    ELSE {}

\* Whether the owner may execute a file of these permissions: the seventh
\* binary digit of the mode.
OwnerExecutes(permissions) == (permissions \div 64) % 2 = 1

\* C19: a regular file that stat or scandir reports is executable exactly
\* when the owner-execute bit of its mode is set, whatever the execute
\* bits of group and others: not with mode 0o611 (393), and with mode
\* 0o700 (448).
C19_ExecutableIsOwnerExecuteBit ==
    \A s \in Reported :
        s.kind = "File" =>
            LET permissions == FS(fsys).tree[s.path].mode
            IN  /\ s.is_executable = OwnerExecutes(permissions)
                /\ permissions = 393 => ~s.is_executable
                /\ permissions = 448 => s.is_executable

\* A listing with files of modes 0o611 and 0o700, and of modes where only
\* the owner (0o100) or only the group (0o010) may execute.
C19_Witness ==
    /\ vfs_op = "scandir"
    /\ fsys = "zoo"
    /\ vfs_path = <<>>
    /\ FS(fsys).tree[<<"marmosets">>].mode = 393
    /\ FS(fsys).tree[<<"photograph_marmosets">>].mode = 448
    /\ {StatFile(<<"marmosets">>, FALSE),
        StatFile(<<"photograph_marmosets">>, TRUE),
        StatFile(<<"executable_file">>, TRUE),
        StatFile(<<"regular_file">>, FALSE)} \subseteq Reported

----------------------------------------------------------------------------
(* Properties of the constructors.                                         *)

\* The token that names a variant: its name in lower case.
TokenOf(variant) ==
    CASE variant = "Ignore" -> "ignore" [] variant = "Warn" -> "warn"
      [] variant = "Error" -> "error" [] variant = "And" -> "and"
      [] variant = "Or" -> "or"

\* A constructor that failed has returned an error and no value.
NoValue(r) == ~r.ok /\ "val" \notin DOMAIN r /\ "err" \in DOMAIN r

\* C16: StrictGlobMatching::create accepts exactly the tokens "ignore",
\* "warn" and "error", each giving the variant of its name, and
\* Conjunction::create exactly "and" and "or"; any other token, one in
\* another case or the empty one too, gives an error and no value.
C16_TokensAcceptedExactly ==
    /\ bpc = "StrictGlobMatching::create" =>
           /\ built.ok <=> args.behavior \in {"ignore", "warn", "error"}
           /\ built.ok => (built.val \in Strictness
                               /\ TokenOf(built.val) = args.behavior)
           /\ ~built.ok => NoValue(built)
    /\ bpc = "Conjunction::create" =>
           /\ built.ok <=> args.spec \in {"and", "or"}
           /\ built.ok => (built.val \in Conjunctions
                               /\ TokenOf(built.val) = args.spec)
           /\ ~built.ok => NoValue(built)

\* The token of a variant in another case, refused.
C16_Witness ==
    /\ bpc = "StrictGlobMatching::create"
    /\ args.behavior = "Ignore"
    /\ built = Err("Unrecognized strict glob matching behavior", "Ignore")
    /\ StrictGlobMatching_create("ignore") = Ok("Ignore")
    /\ Conjunction_create("") = Err("Unrecognized conjunction", "")

\* A filespec that is absolute, that starts with "..", or that has a
\* segment that is no glob.
BadFilespec(filespec) ==
    \/ HasRoot(filespec)
    \/ Head(filespec) = PARENT_DIR
    \/ \E i \in DOMAIN filespec : ~PatternNewOk(filespec[i])

Parses(filespec) == parse(<<>>, <<>>, filespec).ok

Compiles(patterns) == \A j \in DOMAIN patterns : patterns[j] # "["

\* C17: PathGlobs::create returns an error and no PathGlobs whenever one
\* include filespec does not parse (it is absolute, starts with "..", or
\* has bad pattern syntax) or the exclude patterns do not compile, whatever
\* the other inputs; a PathGlobs it returns has one include entry per
\* filespec, in the order given, each with its filespec as its input.
C17_CreateFailsOnAnyBadInput ==
    bpc = "PathGlobs::create" =>
        /\ (\E i \in DOMAIN args.include : BadFilespec(args.include[i]))
               => ~built.ok
        /\ (\E i \in DOMAIN args.include : ~Parses(args.include[i]))
               => ~built.ok
        /\ ~Compiles(args.exclude) => ~built.ok
        /\ ~built.ok => NoValue(built)
        /\ built.ok =>
               /\ Len(built.val.include) = Len(args.include)
               /\ \A i \in DOMAIN args.include :
                      /\ built.val.include[i].input = args.include[i]
                      /\ Ok(built.val.include[i].globs)
                             = parse(<<>>, <<>>, args.include[i])
               /\ built.val.strict_match_behavior = args.strict_match_behavior
               /\ built.val.conjunction = args.conjunction

\* Two filespecs, the first of which parses while the second leaves the
\* root, with excludes that compile.
C17_Witness ==
    /\ bpc = "PathGlobs::create"
    /\ args.include = << <<"a", "*">>, <<"..", "a">> >>
    /\ args.exclude = <<"hammock">>
    /\ Parses(args.include[1])
    /\ ~built.ok
    /\ PathGlobs_create(<< <<"a", "*">>, <<"a">> >>, <<"hammock">>, "Error", "Or").ok

\* What each root of the world leads to, every link followed.
LeadsTo(root) ==
    CASE root = <<"to_build">> -> <<"build">>
      [] root = <<"abs_build">> -> <<"build">>
      [] root = <<"to_src">> -> <<"build", "src">>
      [] root = <<"to_build", "src">> -> <<"build", "src">>
      [] root = <<"build", "up">> -> <<>>
      [] root = <<"build", "up", "file">> -> <<"file">>
      [] root = <<"to_file">> -> <<"file">>
      [] root \in {<<"dangling">>, <<"ping">>, <<"pong">>} -> <<"missing">>
      [] OTHER -> root

\* C18: PosixFS::new returns a PosixFS only for a root that, every link
\* followed, exists and is a directory, and the PosixFS then has that
\* directory's path, free of links, as its root; a root that does not
\* exist or is no directory, or ignore patterns that do not compile, give
\* an error and no PosixFS.
C18_NewOnlyOnCanonicalDirectory ==
    bpc = "PosixFS::new" =>
        LET f == [tree |-> World]
            dest == LeadsTo(args.root)
        IN  /\ built.ok <=> (IsDirectory(f, dest) /\ Compiles(args.ignore_patterns))
            /\ built.ok =>
                   /\ built.val.root = dest
                   /\ SymlinkFree(f, built.val.root)
            /\ (args.root # <<>> /\ args.root \notin DOMAIN World
                    /\ SymlinkFree(f, Parent(args.root))) => ~built.ok
            /\ (args.root \in DOMAIN World /\ World[args.root].kind = "file")
                   => ~built.ok
            /\ ~built.ok => NoValue(built)

\* A root that is a link, through another link, to a directory.
C18_Witness ==
    /\ bpc = "PosixFS::new"
    /\ args.root = <<"to_src">>
    /\ args.ignore_patterns = <<"hammock">>
    /\ built = Ok([root |-> <<"build", "src">>,
                   ignore |-> {IgnorePattern("hammock", FALSE)}])
    /\ ~PosixFS_new(World, <<"to_file">>, <<>>).ok
    /\ ~PosixFS_new(World, <<"missing">>, <<>>).ok

----------------------------------------------------------------------------
(* Properties of the VcfsInstance.                                         *)

IdOf(message) == message.message_id[1].id[1]

\* Fewer than 2^32 messages were created by the instance when n were
\* created in this behaviour (n below 2^16).
FewerThanAll(n) == first_id.hi < 2^16 - 1 \/ n < 2^16 - first_id.lo

\* C24: while fewer than 2^32 messages have been created, the id a call of
\* create_expand_globs_message obtains differs from every id the instance
\* handed out before, in whatever order the threads reach the counter; the
\* message of each caller carries the id its call obtained.
C24_MessageIdsDiffer ==
    /\ \A k \in 1..Len(handed) :
           FewerThanAll(k - 1) =>
               /\ \A j \in 1..(k - 1) : handed[j] # handed[k]
               /\ ~U32Less(handed[k], first_id)
    /\ \A t \in 1..Len(callers) :
           callers[t].pc # "start" =>
               /\ \E k \in 1..Len(handed) : handed[k] = IdOf(callers[t].message)
               /\ \A u \in 1..Len(callers) :
                      (u # t /\ callers[u].pc # "start" /\ FewerThanAll(Len(handed) - 1))
                          => IdOf(callers[u].message) # IdOf(callers[t].message)

\* The second thread reached the counter first.
C24_Witness ==
    /\ Len(callers) >= 2
    /\ first_id = U32(0, 0)
    /\ callers[1].pc = "created" /\ callers[2].pc = "created"
    /\ IdOf(callers[2].message) = U32(0, 0)
    /\ IdOf(callers[1].message) = U32(0, 1)

CallEnded(t) == callers[t].pc \in {"returned", "aborted"}

\* What the reply a caller read holds.
StatusOf(t) == callers[t].reply.val.status
HasId(t) ==
    /\ callers[t].reply.val.message_id # None
    /\ callers[t].reply.val.message_id[1].id # None
SameId(t) ==
    /\ HasId(t)
    /\ callers[t].reply.val.message_id[1].id[1] = IdOf(callers[t].message)

FileList(t) ==
    IF callers[t].reply.val.all_files = None THEN <<>>
    ELSE callers[t].reply.val.all_files[1]

\* A file list is returned for no reply but one with status Ok and the id
\* of the request, and is the list of the reply; an error of the
\* transport is a CommunicationError.
OnlyOkWithSameId(t) ==
    /\ (callers[t].pc = "returned" /\ callers[t].ret.ok)
           => /\ callers[t].reply.ok
              /\ StatusOf(t) = Some("Ok")
              /\ SameId(t)
              /\ callers[t].ret.val = FileList(t)
    /\ ~callers[t].reply.ok
           => /\ callers[t].pc = "returned"
              /\ ~callers[t].ret.ok
              /\ callers[t].ret.err = COMMUNICATION_ERROR

IsCommunicationError(t) ==
    /\ callers[t].pc = "returned"
    /\ callers[t].ret = Err(COMMUNICATION_ERROR, callers[t].reply.val.error_text)

\* C25 as stated: beside that, every reply with status Error is a
\* CommunicationError with its text, and every reply with another id
\* than the request's, without an id or without a status aborts the call.
C25_ErrorReturnedMismatchAborts ==
    \A t \in 1..Len(callers) :
        CallEnded(t) =>
            /\ OnlyOkWithSameId(t)
            /\ callers[t].reply.ok =>
                   /\ StatusOf(t) = Some("Error") => IsCommunicationError(t)
                   /\ (~SameId(t) \/ StatusOf(t) = None)
                          => callers[t].pc = "aborted"

\* C25, amended: a reply with status Error and a message id, the
\* request's or another, is a CommunicationError with its text; a reply
\* with status Ok and another id than the request's, and any reply
\* without a message id or without a status, aborts the call.
C25_OkNeedsSameIdErrorNeedsAnId ==
    \A t \in 1..Len(callers) :
        CallEnded(t) =>
            /\ OnlyOkWithSameId(t)
            /\ callers[t].reply.ok =>
                   /\ (StatusOf(t) = Some("Error") /\ HasId(t))
                          => IsCommunicationError(t)
                   /\ (StatusOf(t) = Some("Ok") /\ ~SameId(t))
                          => callers[t].pc = "aborted"
                   /\ (~HasId(t) \/ StatusOf(t) = None)
                          => callers[t].pc = "aborted"

\* A reply with status Ok and the id of the next message: the call of the
\* first caller aborted, and the second caller has the lock.
C25_Witness ==
    /\ Len(callers) >= 2
    /\ callers[1].pc = "aborted"
    /\ client_lock = 2
    /\ StatusOf(1) = Some("Ok")
    /\ HasId(1)
    /\ callers[1].reply.val.message_id[1].id[1] = IdOf(callers[2].message)

InExchange(t) == callers[t].pc \in {"locked", "sent"}

\* C26: the exchanges of concurrent callers exclude each other: a caller
\* is between the sending of its request and the end of its reply only
\* with the lock of the client, so one request and its reply at most are
\* on the socket, and the reply a caller reads answers its own request.
C26_ExchangesExcludeEachOther ==
    /\ \A t \in 1..Len(callers) : InExchange(t) => client_lock = t
    /\ Len(to_server) + Len(to_client) <= 1
    /\ \A i \in 1..Len(to_server) :
           callers[to_server[i].path_globs[1]].pc = "sent"
    /\ \A i \in 1..Len(to_client) : callers[to_client[i].reply_to].pc = "sent"
    /\ \A t \in 1..Len(callers) :
           (CallEnded(t) /\ callers[t].reply.ok)
               => callers[t].reply.val.reply_to = t

\* The reply to the first caller is on the socket while the second, its
\* message made, waits for the lock.
C26_Witness ==
    /\ Len(callers) >= 2
    /\ callers[1].pc = "sent"
    /\ callers[2].pc = "created"
    /\ client_lock = 1
    /\ Len(to_client) = 1 /\ to_client[1].reply_to = 1

----------------------------------------------------------------------------
(* Properties of from_shm_descriptor.                                      *)

\* Both offsets are there and 0 <= contents_start <= contents_end <= the
\* length of the region.
InRegion ==
    /\ fd.contents_start # None /\ fd.contents_end # None
    /\ 0 <= fd.contents_start[1]
    /\ fd.contents_start[1] <= fd.contents_end[1]
    /\ fd.contents_end[1] <= Len(bytes)

\* C27: from_shm_descriptor returns contents only for offsets inside the
\* region, 0 <= contents_start <= contents_end <= its length, and then
\* exactly the bytes from contents_start up to contents_end; for a
\* negative offset, an end past the region, an end before the start or a
\* missing field nothing is returned, so every byte returned is one of
\* the region.
C27_ContentsOnlyInsideTheRegion ==
    shm_pc = "called" =>
        /\ (InRegion /\ fd.path # None)
               => /\ ~file.panicked
                  /\ file.path = fd.path[1]
                  /\ file.contents
                         = SubSeq(bytes, fd.contents_start[1] + 1, fd.contents_end[1])
        /\ ~InRegion => (file.panicked /\ file.contents = <<>>)
        /\ fd.path = None => file.panicked
        /\ \A k \in 1..Len(file.contents) :
               /\ fd.contents_start[1] + k <= Len(bytes)
               /\ file.contents[k] = bytes[fd.contents_start[1] + k]

\* The second byte of a region of two.
C27_Witness ==
    /\ shm_pc = "called"
    /\ Len(bytes) = 2
    /\ fd.contents_start = Some(1) /\ fd.contents_end = Some(2)
    /\ ~file.panicked
    /\ file.contents = <<2>>

----------------------------------------------------------------------------
(* Properties of safe_create_dir_all_ioerror.                              *)

\* A call that has returned has returned Ok, and its path is a directory.
ReturnedOkAndThere ==
    \A t \in 1..Len(workers) :
        workers[t].pc = "returned"
            => (workers[t].ret.ok /\ workers[t].path \in dirs)

AllReturned == \A t \in 1..Len(workers) : workers[t].pc = "returned"

=============================================================================
